---- MODULE Spec2Model ----
(***************************************************************************)
(* VeloGraph ingestion pipeline: the populator (identity resolution into   *)
(* the relational store), the product API's search-index synchronisation   *)
(* and the page downloader.                                                *)
(*                                                                         *)
(* Strings are sequences of one-character strings, so that strip, split,   *)
(* replace and upper are computed as the code computes them.  Python's     *)
(* None is the one-element sequence NoneStr.  Decimal numbers are integers *)
(* in tenths (5805 is 580.5).                                              *)
(***************************************************************************)
EXTENDS Integers, Sequences, FiniteSets, TLC

VARIABLES
    \* ---- populator ----
    files,          \* the batch: the canonical records in input order
    run,            \* which run over the batch this is (1 = first)
    pc,             \* "loop" | "done" | "crashed" | "killed"
    total_files,    \* populate_directory's counter
    added_skus,     \* the run's set of assigned SKUs
    db,             \* the tables as the open session sees them
    committed,      \* the tables as of the last commit
    seq,            \* the id sequences (not transactional)
    poisoned,       \* the session's transaction failed in a flush
    violation,      \* an INSERT hit a unique constraint in this run
    killed,         \* an earlier run over this batch was killed
    succeeded,      \* indexes of the records of this run that did not raise
    calls,          \* the add_bike_product calls of the last record
    specCalls,      \* the get_or_create_geometry_spec calls of the last record
    afterPrev,      \* the tables left by the previous run when it completed
    lost_at,        \* the record during which the database connection was
                    \* lost (0 = it never was)
    \* ---- product API ----
    products,       \* the bike_products rows (committed)
    next_id,        \* the bike_products id sequence
    fit_index,      \* the per-product index: the set of document ids
    group_index,    \* the group index: document id -> document
    response,       \* the outcome of the last request
    es_failed,      \* a request so far met a failing search store
    \* ---- downloader ----
    mode,           \* which downloader runs: "base" | "trek" | "kross_crawler"
    urls,           \* the URL list handed to the run
    force,          \* the force flag
    concurrency,    \* the number of workers asked for
    not_found,      \* the fetch target the site answers with HTTP 404, if any
    flaky,          \* the fetch target whose attempts can time out, if any
    existing_names, \* download_bike_pages' existing: the names it skips
    cached_at_start,\* the cache names present when the run started
    cache,          \* the page cache: file name -> content
    workers,        \* per worker: position in its batch, phase, attempts
    fetches,        \* every network fetch made in the run
    faults,         \* the transient errors so far
    aborted,        \* an exception left the loop over the URLs
    \* ---- URL collector ----
    crawler,        \* which collector runs: "kross" | "trek"
    catalog,        \* the listing pages of the start URL: the hrefs on each
    overwrite,      \* KrossBikeCrawler.run's overwrite argument
    output,         \* the URL artifact at output_path: None or a list
    bike_urls,      \* the set of product URLs gathered so far
    current_page,   \* the listing page being opened
    goto_attempt,   \* the attempts made to open it
    page_flaky,     \* the listing page whose loads can time out, if any
    page_faults,    \* the transient errors so far
    result,         \* how the collector ended and what it returned
    crawl,          \* which run of the collector this is (1 = first)
    artifact_at_start, \* the URL artifact the run found when it began
    visited,        \* the listing pages the run has tried to open
    \* ---- extractor ----
    extractor,      \* which vendor's extractor runs: "kross" | "trek"
    html,           \* the cached page: its geometry table as the parser sees it
    extracted,      \* what extract_bike_data returned for the page
    json_file,      \* the canonical JSON process_directory wrote, if any
    wheel,          \* a wheel-size token and what normalize_wheel_size made of it
    \* ---- crawl_all ----
    site,           \* the vendor whose part of crawl_all runs: "kross" | "trek"
    start_urls,     \* per configured start URL: the product URLs under it
    force_crawler,  \* FORCE_CRAWLER
    urls_path,      \* the vendor's URL artifact: None or a list
    path_at_start,  \* the artifact when crawl_all began
    all_urls,       \* the set crawl_all gathers for the download stage
    start_idx,      \* the position of the loop over the start URLs
    opened,         \* the start URLs whose catalog was visited
    stage,          \* "crawl" | "download" | "raised"
    \* ---- index rebuild (populate_es) ----
    geometry_specs, \* the geometry_specs rows: the ids of the specs stored
    fit_source,     \* the fit-search index: document id -> _source
    es_stage,       \* "start" | "created" | "populated"
    \* ---- concurrent API requests ----
    reqs            \* per request in progress: its operation, the await point
                    \* it is at, its product, the group write it has sent

popVars == <<files, run, pc, total_files, added_skus, db, committed, seq,
             poisoned, violation, killed, succeeded, calls, specCalls,
             afterPrev, lost_at>>

apiVars == <<products, next_id, fit_index, group_index, response, es_failed>>

dlVars == <<mode, urls, force, concurrency, not_found, flaky, existing_names,
            cached_at_start, cache, workers, fetches, faults, aborted>>

colVars == <<crawler, catalog, overwrite, output, bike_urls, current_page,
             goto_attempt, page_flaky, page_faults, result, crawl,
             artifact_at_start, visited>>

extVars == <<extractor, html, extracted, json_file, wheel>>

runVars == <<site, start_urls, force_crawler, urls_path, path_at_start,
             all_urls, start_idx, opened, stage>>

esVars == <<geometry_specs, fit_source, es_stage>>

concVars == <<reqs>>

vars == <<popVars, apiVars, dlVars, colVars, extVars, runVars, esVars, concVars>>

\* what each part of the pipeline leaves alone
NotPop == <<apiVars, dlVars, colVars, extVars, runVars, esVars, concVars>>
NotApi == <<popVars, dlVars, colVars, extVars, runVars, esVars, concVars>>
NotDl == <<popVars, apiVars, colVars, extVars, runVars, esVars, concVars>>
NotCol == <<popVars, apiVars, dlVars, extVars, runVars, esVars, concVars>>
NotExt == <<popVars, apiVars, dlVars, colVars, runVars, esVars, concVars>>
NotRun == <<popVars, apiVars, dlVars, colVars, extVars, esVars, concVars>>
NotEs == <<popVars, dlVars, colVars, extVars, runVars, concVars>>
NotConc == <<popVars, dlVars, colVars, extVars, runVars, esVars>>

-----------------------------------------------------------------------------
(* Bounds *)

MaxTail == 2        \* records of interest that follow the filler prefix
MaxRuns == 2        \* runs over the same batch

-----------------------------------------------------------------------------
(* Strings *)

NoneStr == <<"None">>

LowerChars == <<"a","b","c","d","e","f","g","h","i","j","k","l","m",
                "n","o","p","q","r","s","t","u","v","w","x","y","z">>
UpperChars == <<"A","B","C","D","E","F","G","H","I","J","K","L","M",
                "N","O","P","Q","R","S","T","U","V","W","X","Y","Z">>

UpperChar(c) ==
    IF \E i \in 1..26 : LowerChars[i] = c
    THEN UpperChars[CHOOSE i \in 1..26 : LowerChars[i] = c]
    ELSE c

LowerChar(c) ==
    IF \E i \in 1..26 : UpperChars[i] = c
    THEN LowerChars[CHOOSE i \in 1..26 : UpperChars[i] = c]
    ELSE c

Upper(s) == [i \in 1..Len(s) |-> UpperChar(s[i])]
Lower(s) == [i \in 1..Len(s) |-> LowerChar(s[i])]

\* str.replace(" ", "-")
ReplaceSpace(s) == [i \in 1..Len(s) |-> IF s[i] = " " THEN "-" ELSE s[i]]

RECURSIVE LStrip(_)
LStrip(s) == IF s # <<>> /\ Head(s) = " " THEN LStrip(Tail(s)) ELSE s

RECURSIVE RStrip(_)
RStrip(s) ==
    IF s # <<>> /\ s[Len(s)] = " " THEN RStrip(SubSeq(s, 1, Len(s) - 1)) ELSE s

\* str.strip()
Strip(s) == RStrip(LStrip(s))

\* str.split(): the maximal runs of non-blank characters
RECURSIVE SplitWs(_, _, _)
SplitWs(s, cur, acc) ==
    IF s = <<>>
    THEN IF cur = <<>> THEN acc ELSE Append(acc, cur)
    ELSE IF Head(s) = " "
         THEN SplitWs(Tail(s), <<>>, IF cur = <<>> THEN acc ELSE Append(acc, cur))
         ELSE SplitWs(Tail(s), Append(cur, Head(s)), acc)

\* sep.join(parts)
RECURSIVE Join(_, _)
Join(sep, parts) ==
    IF parts = <<>> THEN <<>>
    ELSE IF Len(parts) = 1 THEN parts[1]
    ELSE parts[1] \o sep \o Join(sep, Tail(parts))

DigitChars == <<"0","1","2","3","4","5","6","7","8","9">>

\* str(n) for n >= 0
RECURSIVE Digits(_)
Digits(n) ==
    IF n < 10 THEN <<DigitChars[n + 1]>>
    ELSE Digits(n \div 10) \o <<DigitChars[(n % 10) + 1]>>

\* the elements of a sequence that are non-empty strings (Python truthiness)
RECURSIVE Truthy(_)
Truthy(parts) ==
    IF parts = <<>> THEN <<>>
    ELSE IF Head(parts) = <<>> THEN Truthy(Tail(parts))
    ELSE <<Head(parts)>> \o Truthy(Tail(parts))

normalize_labelMutant(label) == label
normalize_label(label) == Join(<<" ">>, SplitWs(Strip(label), <<>>, <<>>))

-----------------------------------------------------------------------------
(* Numbers *)

NumV(n) == [t |-> "num", v |-> n]       \* a JSON number, in tenths
NullV   == [t |-> "null", v |-> 0]      \* JSON null
BadV    == [t |-> "str", v |-> 0]       \* a string that holds no digits

\* Python's round() of a value given in tenths: half goes to even
Round(t) ==
    LET q == t \div 10
        r == t % 10
    IN  IF r < 5 THEN q
        ELSE IF r > 5 THEN q + 1
        ELSE IF q % 2 = 0 THEN q ELSE q + 1

\* (raised, value in tenths)
extract_number(val) ==
    IF val.t = "num" THEN [raised |-> FALSE, num |-> val.v]
    ELSE [raised |-> TRUE, num |-> 0]

-----------------------------------------------------------------------------
(* Populator: geometry payload *)

SPEC_KEYS_MAP ==
    << <<"stack", "stack_mm">>, <<"reach", "reach_mm">>,
       <<"TT", "top_tube_effective_mm">>, <<"ST", "seat_tube_length_mm">>,
       <<"HT", "head_tube_length_mm">>, <<"CS", "chainstay_length_mm">>,
       <<"HA", "head_tube_angle">>, <<"SA", "seat_tube_angle">>,
       <<"bb_drop", "bb_drop_mm">>, <<"WB", "wheelbase_mm">> >>

SrcKeys == {SPEC_KEYS_MAP[i][1] : i \in 1..Len(SPEC_KEYS_MAP)}
DstKeys == {SPEC_KEYS_MAP[i][2] : i \in 1..Len(SPEC_KEYS_MAP)}
SrcOf(dst) ==
    SPEC_KEYS_MAP[CHOOSE i \in 1..Len(SPEC_KEYS_MAP) : SPEC_KEYS_MAP[i][2] = dst][1]

AngleKeys == {"head_tube_angle", "seat_tube_angle"}

\* specs.get(src_key, [])[idx], None when the key or the index is missing;
\* idx counts from 1 here
RawAt(specs, src, idx) ==
    IF src \in DOMAIN specs /\ idx <= Len(specs[src]) THEN specs[src][idx]
    ELSE NullV

\* (raised, payload): lengths rounded to whole mm, angles kept as floats
build_geometry_payload(specs, idx, key_map) ==
    LET dsts == {key_map[i][2] : i \in 1..Len(key_map)}
        srcOf(d) == key_map[CHOOSE i \in 1..Len(key_map) : key_map[i][2] = d][1]
        bad(d) == \/ RawAt(specs, srcOf(d), idx).t = "null"
                  \/ extract_number(RawAt(specs, srcOf(d), idx)).raised
    IN  IF \E d \in dsts : bad(d)
        THEN [raised |-> TRUE, payload |-> [d \in {} |-> 0]]
        ELSE [raised |-> FALSE,
              payload |-> [d \in dsts |->
                  LET num == extract_number(RawAt(specs, srcOf(d), idx)).num
                  IN  IF d \in AngleKeys THEN num ELSE Round(num)]]

-----------------------------------------------------------------------------
(* Populator: get-or-create over the session *)

\* A session value s carries what the functions read and write:
\*   s.db, s.seq, s.added (added_skus), s.poisoned, s.violation,
\*   s.calls, s.specCalls.
\* Every function returns [s, raised, row].

NoRow == [id |-> 0]
Raise(s) == [s |-> s, raised |-> TRUE, row |-> NoRow]
Ok(s, row) == [s |-> s, raised |-> FALSE, row |-> row]

\* session.add(row); session.flush() of a row that breaks no constraint
Insert(s, table, row) ==
    [s EXCEPT !.db[table] = @ \cup {row}, !.seq[table] = @ + 1]

\* the where clause compares the two names with each other's column
FindFamilyMutant(d, brand, family_name) ==
    {f \in d.families : f.brand_name = family_name /\ f.family_name = brand}
FindFamily(d, brand, family_name) ==
    {f \in d.families : f.brand_name = brand /\ f.family_name = family_name}

get_or_create_family(s, brand, family_name, category) ==
    IF s.poisoned THEN Raise(s)
    ELSE LET found == FindFamily(s.db, brand, family_name)
         IN  IF found # {} THEN Ok(s, CHOOSE f \in found : TRUE)
             ELSE LET row == [id |-> s.seq.families + 1, brand_name |-> brand,
                              family_name |-> family_name, category |-> category]
                  IN  Ok(Insert(s, "families", row), row)

FindDefinition(d, family_id, name, material) ==
    {x \in d.definitions :
        x.family_id = family_id /\ x.name = name /\ x.material = material}

get_or_create_definition(s, family_id, name, material, year) ==
    IF s.poisoned THEN Raise(s)
    ELSE LET found == FindDefinition(s.db, family_id, name, material)
         IN  IF found # {} THEN Ok(s, CHOOSE x \in found : TRUE)
             ELSE LET row == [id |-> s.seq.definitions + 1, family_id |-> family_id,
                              name |-> name, material |-> material,
                              year_start |-> year, year_end |-> year]
                  IN  Ok(Insert(s, "definitions", row), row)

StandardBuild == <<"S","t","a","n","d","a","r","d"," ","B","u","i","l","d">>

\* data is [kind, name, groupset]: kind "null" is JSON null (data.get raises),
\* "obj" an object; a missing or empty name falls back to "Standard Build"
get_or_create_build_kit(s, data) ==
    IF data.kind = "null" THEN Raise(s)
    ELSE IF s.poisoned THEN Raise(s)
    ELSE LET name == IF data.name = NoneStr \/ data.name = <<>>
                     THEN StandardBuild ELSE data.name
             found == {b \in s.db.build_kits :
                          /\ b.name = name /\ b.groupset = data.groupset
                          /\ b.wheelset = NoneStr /\ b.cockpit = NoneStr
                          /\ b.tires = NoneStr}
         IN  IF found # {} THEN Ok(s, CHOOSE b \in found : TRUE)
             ELSE LET row == [id |-> s.seq.build_kits + 1, name |-> name,
                              groupset |-> data.groupset, wheelset |-> NoneStr,
                              cockpit |-> NoneStr, tires |-> NoneStr]
                  IN  Ok(Insert(s, "build_kits", row), row)

FindSpec(d, definition_id, norm_label) ==
    {g \in d.specs : g.definition_id = definition_id /\ g.size_label = norm_label}

\* the else branch of get_or_create_geometry_spec: the stored row as it is
KeepSpecMutant(spec, payload) == [spec EXCEPT !.geo = payload]
KeepSpec(spec, payload) == spec

get_or_create_geometry_spec(s, definition_id, label, payload) ==
    IF s.poisoned THEN Raise(s)
    ELSE LET norm_label == normalize_label(label)
             found == FindSpec(s.db, definition_id, norm_label)
             log(existed, before, s2, row) ==
                 [s2 EXCEPT !.specCalls = Append(@,
                     [existed |-> existed, before |-> before, payload |-> payload,
                      returned |-> row,
                      rowsBefore |-> Cardinality(found),
                      rowsAfter |-> Cardinality(FindSpec(s2.db, definition_id, norm_label)),
                      stored |-> FindSpec(s2.db, definition_id, norm_label)])]
         IN  IF found # {}
             THEN LET old == CHOOSE g \in found : TRUE
                      new == KeepSpec(old, payload)
                      s2 == [s EXCEPT !.db.specs = (@ \ {old}) \cup {new}]
                  IN  Ok(log(TRUE, old, s2, new), new)
             ELSE LET row == [id |-> s.seq.specs + 1, definition_id |-> definition_id,
                              size_label |-> norm_label, geo |-> payload]
                  IN  Ok(log(FALSE, NoRow, Insert(s, "specs", row), row), row)

FindProduct(d, spec_id, bk_id) ==
    {p \in d.products : p.geometry_spec_id = spec_id /\ p.build_kit_id = bk_id}

\* lines 136-138: the stored colours after a merge (a sorted list of a set)
MergeColorsMutant(old, colors) == colors
MergeColors(old, colors) == old \cup colors

\* lines 143-148: the SKU the new product is inserted under
Suffixed(sku, k) == sku \o <<"-">> \o Digits(k)

RECURSIVE FirstFreeSuffix(_, _, _)
FirstFreeSuffix(sku, added, suffix) ==
    IF Suffixed(sku, suffix) \in added
    THEN FirstFreeSuffix(sku, added, suffix + 1)
    ELSE suffix

FinalSkuMutant(sku, added) ==
    IF sku \in added THEN Suffixed(sku, FirstFreeSuffix(sku, added, 2)) ELSE sku
FinalSku(sku, added) ==
    IF sku \in added THEN Suffixed(sku, FirstFreeSuffix(sku, added, 1)) ELSE sku

add_bike_product(s, sku, colors, spec_id, bk_id, source_url) ==
    IF s.poisoned THEN Raise(s)
    ELSE LET existing == FindProduct(s.db, spec_id, bk_id)
             log(kind, final, before, s2) ==
                 [s2 EXCEPT !.calls = Append(@,
                     [kind |-> kind, spec_id |-> spec_id, bk_id |-> bk_id,
                      sku |-> sku, final |-> final, colors |-> colors,
                      addedBefore |-> s.added, colorsBefore |-> before,
                      skusBefore |-> {p.sku : p \in s.db.products},
                      rowsBefore |-> Cardinality(s.db.products),
                      rowsAfter |-> Cardinality(s2.db.products),
                      stored |-> FindProduct(s2.db, spec_id, bk_id)])]
         IN  IF existing # {}
             THEN LET old == CHOOSE p \in existing : TRUE
                      new == [old EXCEPT !.colors = MergeColors(old.colors, colors)]
                      s2 == [s EXCEPT !.db.products = (@ \ {old}) \cup {new}]
                  IN  Ok(log("merge", old.sku, old.colors, s2), new)
             ELSE LET final_sku == FinalSku(sku, s.added)
                      row == [id |-> s.seq.products + 1, sku |-> final_sku,
                              colors |-> colors, geometry_spec_id |-> spec_id,
                              build_kit_id |-> bk_id, source_url |-> source_url]
                  IN  IF \E p \in s.db.products : p.sku = final_sku
                      THEN \* flush: the INSERT breaks the unique index on sku;
                           \* the transaction is void until session.rollback()
                           Raise(log("violation", final_sku, {},
                                     [s EXCEPT !.poisoned = TRUE, !.violation = TRUE,
                                               !.seq.products = @ + 1]))
                      ELSE Ok(log("create", final_sku, {},
                                  [Insert(s, "products", row) EXCEPT
                                      !.added = @ \cup {final_sku}]), row)

-----------------------------------------------------------------------------
(* Category of a record: backend/core/utils.py get_simple_types *)

\* re.search of a literal, case-insensitively
Contains(s, pat) ==
    \E i \in 1..(Len(s) - Len(pat) + 1) :
        SubSeq(Lower(s), i, i + Len(pat) - 1) = pat

CATEGORY_PATTERNS == {
    [cat |-> "gravel", pats |-> {<<"g","r","a","v","e","l">>}],
    [cat |-> "mtb", pats |-> {<<"m","t","b">>, <<"g","o_acute","r","s","k">>, <<"f","u","e","l">>, <<"s","u","p","e","r","c","a","l","i","b","e","r">>, <<"s","e","s","s","i","o","n">>, <<"c","a","l","i","b","e","r">>}],
    [cat |-> "trekking", pats |-> {<<"t","r","e","k","k","i","n","g">>, <<"m","a","h","o","n">>, <<"s","u","v","e","a">>, <<"z","i","n","g">>, <<"e","l","a","n">>, <<"n","h","o","m","a">>}],
    [cat |-> "cross", pats |-> {<<"c","r","o","s","s">>, <<"h","y","b","r","y","d">>}],
    [cat |-> "road", pats |-> {<<"s","z","o","s">>, <<"r","o","a","d">>, <<"d","o","m","a","n","e">>, <<"m","a","d","o","n","e">>, <<"e","m","o","n","d","a">>, <<"c","h","e","c","k","p","o","i","n","t">>}],
    [cat |-> "city", pats |-> {<<"m","i","e","j","s","k">>, <<"c","i","t","y">>, <<"t","o","w","n">>, <<"m","i","e","s_acute","c","i","e">>, <<"c","r","u","i","s","e","r">>, <<"l","o","f","t">>, <<"b","a","l","i">>, <<"s","h","i","b","o","r","i">>, <<"g","h","o","s","t","r","i","d","e","r">>, <<"z","o","u","m","a">>}],
    [cat |-> "kids", pats |-> {<<"d","z","i","e","c","i">>, <<"k","i","d","s">>, <<"j","u","n","i","o","r">>, <<"p","r","e","c","a","l","i","b","e","r">>, <<"k","i","c","k","s","t","e","r">>, <<"w","a","h","o","o">>}],
    [cat |-> "touring", pats |-> {<<"t","o","u","r","i","n","g">>, <<"w","y","p","r","a","w">>, <<"t","u","r","y","s","t">>}],
    [cat |-> "women", pats |-> {<<"d","a","m","s","k">>, <<"w","o","m","e","n">>}] }

\* the BikeCategory values in sorted() order
SortedCategories ==
    <<"city", "cross", "gravel", "kids", "mtb", "other", "road", "touring",
      "trekking", "women">>

\* sorted(list(results))[0]
FirstCategory(results) ==
    SortedCategories[CHOOSE i \in 1..Len(SortedCategories) :
        /\ SortedCategories[i] \in results
        /\ \A j \in 1..(i - 1) : SortedCategories[j] \notin results]

get_simple_types(categories) ==
    LET results == {e.cat : e \in {e \in CATEGORY_PATTERNS :
                        \E i \in 1..Len(categories) :
                            \E pt \in e.pats : Contains(categories[i], pt)}}
    IN  IF categories = <<>> \/ results = {} THEN {"other"} ELSE results

-----------------------------------------------------------------------------
(* Populator: one canonical record (kross_populator.populate_from_json_data) *)

Kross == <<"K","r","o","s","s">>

\* the natural key of a stored product: what it is, whatever its ids are
NaturalKey(d, p) ==
    LET g == CHOOSE g \in d.specs : g.id = p.geometry_spec_id
        x == CHOOSE x \in d.definitions : x.id = g.definition_id
        f == CHOOSE f \in d.families : f.id = x.family_id
        b == CHOOSE b \in d.build_kits : b.id = p.build_kit_id
    IN  [brand |-> f.brand_name, family |-> f.family_name, definition |-> x.name,
         material |-> x.material, size_label |-> g.size_label, kit |-> b.name]

ProductKeys(d) == {NaturalKey(d, p) : p \in d.products}

\* [str(c.get("color")).strip() for c in colors_data if c.get("color")],
\* then [c for c in colors if c]; stored sorted and without duplicates
Colors(colors_data) ==
    {Strip(colors_data[i]) : i \in {j \in 1..Len(colors_data) : colors_data[j] # <<>>}}
        \ {<<>>}

\* "-".join(p.replace(" ", "-") for p in sku_parts if p).upper()
Sku(sku_parts) ==
    LET parts == Truthy(sku_parts)
    IN  Upper(Join(<<"-">>, [i \in 1..Len(parts) |-> ReplaceSpace(parts[i])]))

\* One size of the record, in three steps; every exception of the size is
\* caught and logged, and the loop goes on with what the session then holds.
\* (The steps are operators of their own so that each intermediate result is
\* computed once.)
WithSpec(data, model_name, build_kit, norm_label, gs) ==
    IF gs.raised THEN gs.s
    ELSE add_bike_product(
             gs.s,
             Sku(<<Kross, model_name,
                   IF data.model_year = 0 THEN <<>> ELSE Digits(data.model_year),
                   build_kit.name, norm_label>>),
             Colors(data.colors), gs.row.id, build_kit.id, data.source_url).s

WithPayload(s, data, model_name, frame_def, build_kit, norm_label, pl) ==
    IF pl.raised THEN s
    ELSE WithSpec(data, model_name, build_kit, norm_label,
                  get_or_create_geometry_spec(s, frame_def.id, norm_label, pl.payload))

SizeBodyMutant(s, data, model_name, frame_def, build_kit, idx) ==
    WithPayload(s, data, model_name, frame_def, build_kit,
                normalize_label(data.sizes[idx]),
                build_geometry_payload(data.specs, 1, SPEC_KEYS_MAP))
SizeBody(s, data, model_name, frame_def, build_kit, idx) ==
    WithPayload(s, data, model_name, frame_def, build_kit,
                normalize_label(data.sizes[idx]),
                build_geometry_payload(data.specs, idx, SPEC_KEYS_MAP))

\* for idx, size_label in enumerate(sizes)
RECURSIVE SizeLoop(_, _, _, _, _, _)
SizeLoop(s, data, model_name, frame_def, build_kit, idx) ==
    IF idx > Len(data.sizes) THEN s
    ELSE SizeLoop(SizeBody(s, data, model_name, frame_def, build_kit, idx),
                  data, model_name, frame_def, build_kit, idx + 1)

\* the record from the build kit on; [s, raised]
WithBuildKit(data, model_name, frame_def, bk) ==
    IF bk.raised THEN [s |-> bk.s, raised |-> TRUE]
    ELSE [s |-> SizeLoop(bk.s, data, model_name, frame_def, bk.row, 1),
          raised |-> FALSE]

WithDefinition(data, model_name, fd) ==
    IF fd.raised THEN [s |-> fd.s, raised |-> TRUE]
    ELSE WithBuildKit(data, model_name, fd.row,
                      get_or_create_build_kit(fd.s, data.build_kit))

WithFamily(data, model_name, fam) ==
    IF fam.raised THEN [s |-> fam.s, raised |-> TRUE]
    ELSE WithDefinition(data, model_name,
             get_or_create_definition(
                 fam.s, fam.row.id,
                 Strip(model_name \o <<" ">> \o
                       (IF data.material = NoneStr THEN <<>> ELSE data.material)),
                 data.material, data.model_year))

\* [s, raised]
populate_from_json_data(s, data) ==
    IF data.model = NoneStr THEN [s |-> s, raised |-> TRUE]     \* None.strip()
    ELSE WithFamily(data, Strip(data.model),
             get_or_create_family(
                 s, Kross, Strip(data.model),
                 IF data.categories # <<>>
                 THEN FirstCategory(get_simple_types(data.categories))
                 ELSE "other"))

\* json.loads, then populate_from_json_data
populate_from_json(s, item) ==
    IF item.malformed THEN [s |-> s, raised |-> TRUE]
    ELSE populate_from_json_data(s, item)

-----------------------------------------------------------------------------
(* Populator: the batches the model runs *)

CheckpointEvery == 10       \* "if total_files % 10 == 0: session.commit()"

\* every geometry column present for nsizes sizes, the stack column as given
SpecsWith(stacks, nsizes) ==
    [k \in SrcKeys |->
        IF k = "stack" THEN stacks
        ELSE [i \in 1..nsizes |->
                 IF k = "HA" THEN NumV(710)
                 ELSE IF k = "SA" THEN NumV(735)
                 ELSE NumV(3805)]]

Rec(model, material, sizes, stacks, colors) ==
    [malformed |-> FALSE, model |-> model, material |-> material,
     model_year |-> 2024, categories |-> << <<"G","r","a","v","e","l">> >>,
     build_kit |-> [kind |-> "obj", name |-> NoneStr, groupset |-> NoneStr],
     sizes |-> sizes, specs |-> SpecsWith(stacks, Len(sizes)),
     colors |-> colors, source_url |-> NoneStr]

RecA  == Rec(<<"E","k">>, <<"C">>, << <<"M">> >>, <<NumV(5800)>>, << <<"R">> >>)
\* the same product seen again, with another stack and another colour, and
\* with blanks around its size label
RecA2 == Rec(<<"E","k">>, <<"C">>, << <<" ","M"," ">> >>, <<NumV(5810)>>,
             << <<"B">> >>)
\* another frame material: another definition, the same base SKU
RecB  == Rec(<<"E","k">>, <<"A">>, << <<"M">> >>, <<NumV(5600)>>, << <<"R">> >>)
\* a file that is not JSON
RecMalformed == [RecA EXCEPT !.malformed = TRUE]
\* "build_kit": null
RecNoKit == [Rec(<<"N","k">>, <<"C">>, << <<"M">> >>, <<NumV(5800)>>, <<>>)
                EXCEPT !.build_kit.kind = "null"]
\* a third material with the same base SKU
RecC  == Rec(<<"E","k">>, <<"T">>, << <<"M">> >>, <<NumV(5400)>>, <<>>)
\* a record whose only size has no stack value
RecNoGeo == Rec(<<"G","o">>, <<"C">>, << <<"M">> >>, <<NullV>>, <<>>)
RecFiller == Rec(<<"F","i">>, NoneStr, << <<"S">> >>, <<NumV(5205)>>, <<>>)

\* two sizes, the first of them without a stack value
RecTwoSizes == Rec(<<"T","w">>, <<"C">>, << <<"S">>, <<"M">> >>,
                   <<NullV, NumV(5600)>>, <<>>)
\* a head angle of 85.0 degrees and a stack of -100 mm
RecSteep == [Rec(<<"S","t">>, <<"C">>, << <<"M">> >>, <<NumV(-1000)>>, <<>>)
                EXCEPT !.specs.HA = <<NumV(850)>>]

RecTypes == {RecA, RecA2, RecB, RecC, RecMalformed, RecNoKit, RecNoGeo,
             RecTwoSizes, RecSteep}

RECURSIVE SeqsUpTo(_, _)
SeqsUpTo(set, n) ==
    IF n = 0 THEN {<<>>}
    ELSE LET shorter == SeqsUpTo(set, n - 1)
         IN  shorter \cup {Append(q, x) : q \in {q \in shorter : Len(q) = n - 1},
                                          x \in set}

Tails == SeqsUpTo(RecTypes, MaxTail) \ {<<>>}

\* no filler, or as much filler as puts the first record of interest on a
\* checkpoint
Prefix(n) == [i \in 1..n |-> RecFiller]
Batches == {Prefix(n) \o t : n \in {0, CheckpointEvery - 1}, t \in Tails}

EmptyDb == [families |-> {}, definitions |-> {}, build_kits |-> {},
            specs |-> {}, products |-> {}]
NoSeq == [families |-> 0, definitions |-> 0, build_kits |-> 0,
          specs |-> 0, products |-> 0]
NoFn == [i \in {} |-> {}]

\* the populator before any batch is handed to it
PopIdle ==
    /\ files = <<>>
    /\ run = 1
    /\ pc = "done"
    /\ total_files = 0
    /\ added_skus = {}
    /\ db = EmptyDb
    /\ committed = EmptyDb
    /\ seq = NoSeq
    /\ poisoned = FALSE
    /\ violation = FALSE
    /\ killed = FALSE
    /\ succeeded = NoFn
    /\ calls = <<>>
    /\ specCalls = <<>>
    /\ afterPrev = [ok |-> FALSE, db |-> EmptyDb]
    /\ lost_at = 0

\* the product API before any request: no product, both indices empty
ApiIdle ==
    /\ products = {}
    /\ next_id = 0
    /\ fit_index = {}
    /\ group_index = NoFn
    /\ response = [op |-> "none", status |-> 0, id |-> 0, writes |-> <<>>,
                   es_error |-> FALSE]
    /\ es_failed = FALSE

\* the downloader before any run: no URL, an empty cache directory
DlIdle ==
    /\ mode = "base"
    /\ urls = <<>>
    /\ force = FALSE
    /\ concurrency = 1
    /\ not_found = {}
    /\ flaky = {}
    /\ existing_names = {}
    /\ cached_at_start = {}
    /\ cache = NoFn
    /\ workers = <<>>
    /\ fetches = {}
    /\ faults = 0
    /\ aborted = FALSE

\* the collector before any run: no catalog, no artifact
ColIdle ==
    /\ crawler = "trek"
    /\ catalog = <<>>
    /\ overwrite = FALSE
    /\ output = NoneStr
    /\ bike_urls = {}
    /\ current_page = 0
    /\ goto_attempt = 0
    /\ page_flaky = {}
    /\ page_faults = 0
    /\ result = [state |-> "idle", urls |-> <<>>, failed_at |-> 0]
    /\ crawl = 0
    /\ artifact_at_start = NoneStr
    /\ visited = {}

\* what extract_bike_data and process_directory have when there is no record
NoData == [kind |-> "none", sizes |-> <<>>, specs |-> <<>>]
\* the extractor has not looked at the page yet
Pending == [kind |-> "pending", sizes |-> <<>>, specs |-> <<>>]

\* crawl_all before it is called
RunIdle ==
    /\ site = "kross"
    /\ start_urls = <<>>
    /\ force_crawler = FALSE
    /\ urls_path = NoneStr
    /\ path_at_start = NoneStr
    /\ all_urls = {}
    /\ start_idx = 0
    /\ opened = {}
    /\ stage = "idle"

\* the index rebuild before it is started
EsIdle ==
    /\ geometry_specs = {}
    /\ fit_source = NoFn
    /\ es_stage = "idle"
\* no API request is in progress
ConcIdle == reqs = <<>>
\* the extractor before any run: no page, no token
ExtIdle ==
    /\ extractor = "trek"
    /\ html = [table |-> "none", sizes |-> <<>>, specs |-> <<>>]
    /\ extracted = Pending
    /\ json_file = NoData
    /\ wheel = [pre |-> <<>>, token |-> <<>>, suf |-> <<>>, done |-> FALSE,
                code |-> <<>>]

-----------------------------------------------------------------------------
(* Populator: populate_directory / populate_from_archive *)

SessionOf ==
    [db |-> db, seq |-> seq, added |-> added_skus, poisoned |-> poisoned,
     violation |-> violation, calls |-> <<>>, specCalls |-> <<>>]

\* the products a record wrote or merged, by natural key
Touched(s) ==
    UNION {{NaturalKey(s.db, p) : p \in s.calls[i].stored} :
              i \in {j \in 1..Len(s.calls) : s.calls[j].kind \in {"create", "merge"}}}

PopInit ==
    /\ files \in Batches
    /\ run = 1
    /\ pc = "loop"
    /\ total_files = 0
    /\ added_skus = {}
    /\ db = EmptyDb
    /\ committed = EmptyDb
    /\ seq = NoSeq
    /\ poisoned = FALSE
    /\ violation = FALSE
    /\ killed = FALSE
    /\ succeeded = NoFn
    /\ calls = <<>>
    /\ specCalls = <<>>
    /\ afterPrev = [ok |-> FALSE, db |-> EmptyDb]
    /\ lost_at = 0
    /\ ApiIdle
    /\ EsIdle
    /\ ConcIdle
    /\ DlIdle
    /\ ColIdle
    /\ ExtIdle
    /\ RunIdle

\* one iteration of "for item in files" on session s with the committed
\* tables cm, n being the new total_files: the try body (r is its outcome),
\* the checkpoint commit and the except clause with its session.rollback()
LoopEnd(cm, n, r) ==
    LET commitDue == ~r.raised /\ n % CheckpointEvery = 0
        commitRaises == commitDue /\ r.s.poisoned
        excepted == r.raised \/ commitRaises
    IN  [s |-> [r.s EXCEPT !.db = IF excepted THEN cm ELSE r.s.db,
                           !.poisoned = IF excepted THEN FALSE ELSE r.s.poisoned],
         committed |-> IF commitDue /\ ~commitRaises THEN r.s.db ELSE cm,
         excepted |-> excepted,
         touched |-> IF excepted THEN {} ELSE Touched(r.s)]

LoopBody(s, cm, n, item) ==
    LoopEnd(cm, n, populate_from_json([s EXCEPT !.calls = <<>>, !.specCalls = <<>>],
                                      item))

ProcessRecord ==
    /\ pc = "loop"
    /\ total_files < Len(files)
    /\ \E b \in {LoopBody(SessionOf, committed, total_files + 1,
                          files[total_files + 1])} :
           /\ total_files' = total_files + 1
           /\ db' = b.s.db
           /\ committed' = b.committed
           /\ poisoned' = b.s.poisoned
           /\ seq' = b.s.seq
           /\ added_skus' = b.s.added
           /\ violation' = b.s.violation
           /\ calls' = b.s.calls
           /\ specCalls' = b.s.specCalls
           /\ succeeded' = IF b.excepted THEN succeeded
                           ELSE [i \in DOMAIN succeeded \cup {total_files + 1} |->
                                    IF i = total_files + 1 THEN b.touched
                                    ELSE succeeded[i]]
    /\ UNCHANGED <<files, run, pc, killed, afterPrev, lost_at>>
    /\ UNCHANGED NotPop

\* the session.commit() after the loop; it raises when the transaction is void
FinalCommit ==
    /\ pc = "loop"
    /\ total_files = Len(files)
    /\ IF poisoned
       THEN /\ pc' = "crashed"
            /\ db' = committed
            /\ UNCHANGED committed
       ELSE /\ pc' = "done"
            /\ committed' = db
            /\ UNCHANGED db
    /\ poisoned' = FALSE
    /\ UNCHANGED <<files, run, total_files, added_skus, seq, violation, killed,
                   succeeded, calls, specCalls, afterPrev, lost_at>>
    /\ UNCHANGED NotPop

\* the process is killed: what was not committed is gone
Kill ==
    /\ pc = "loop"
    /\ pc' = "killed"
    /\ db' = committed
    /\ poisoned' = FALSE
    /\ UNCHANGED <<files, run, total_files, added_skus, committed, seq, violation,
                   killed, succeeded, calls, specCalls, afterPrev, lost_at>>
    /\ UNCHANGED NotPop

\* the operator runs the same batch again: a new session, a new added_skus
Rerun ==
    /\ pc \in {"done", "crashed", "killed"}
    /\ run < MaxRuns
    /\ run' = run + 1
    /\ pc' = "loop"
    /\ total_files' = 0
    /\ added_skus' = {}
    /\ violation' = FALSE
    /\ killed' = (killed \/ pc = "killed")
    /\ succeeded' = NoFn
    /\ calls' = <<>>
    /\ specCalls' = <<>>
    /\ afterPrev' = [ok |-> pc = "done", db |-> committed]
    /\ UNCHANGED <<files, db, committed, seq, poisoned, lost_at>>
    /\ UNCHANGED NotPop

PopNext == ProcessRecord \/ FinalCommit \/ Kill \/ Rerun

SpecPop == PopInit /\ [][PopNext]_vars

\* one iteration of "for item in files" while the database cannot be reached:
\* json.load reads the file, get_or_create_family's query raises
\* OperationalError, the except clause logs it and calls session.rollback(),
\* and the for loop goes on to the next item
ConnectionLost ==
    /\ pc = "loop"
    /\ total_files < Len(files)
    /\ total_files' = total_files + 1
    /\ db' = committed
    /\ poisoned' = FALSE
    /\ calls' = <<>>
    /\ specCalls' = <<>>
    /\ lost_at' = IF lost_at = 0 THEN total_files + 1 ELSE lost_at
    /\ UNCHANGED <<files, run, pc, added_skus, committed, seq, violation, killed,
                   succeeded, afterPrev>>
    /\ UNCHANGED NotPop

\* a run over the batch during which the database can become unreachable; a
\* later iteration finds it unreachable still (ConnectionLost) or reachable
\* again through a fresh pool connection (ProcessRecord)
OutageNext == ProcessRecord \/ ConnectionLost \/ FinalCommit

\* the batches without the filler that leads up to a checkpoint
OutageInit ==
    /\ PopInit
    /\ Len(files) <= MaxTail

SpecOutage == OutageInit /\ [][OutageNext]_vars

\* C21: once the database connection is lost during a record, the batch stops
\* at that record: no later record is gone through and the run does not end
\* with populate_directory returning its file count
C21_StopsAtLostConnection ==
    lost_at > 0 => (total_files = lost_at /\ pc # "done")

-----------------------------------------------------------------------------
(* Populator: properties *)

\* one run of the whole batch that nothing interrupts, from an empty database
RECURSIVE RunFrom(_, _, _, _)
RunNext(batch, b, n) == RunFrom(batch, b.s, b.committed, n + 1)
RunFrom(batch, s, cm, n) ==
    IF n > Len(batch) THEN (IF s.poisoned THEN cm ELSE s.db)
    ELSE RunNext(batch, LoopBody(s, cm, n, batch[n]), n)

Uninterrupted(batch) ==
    RunFrom(batch,
            [db |-> EmptyDb, seq |-> NoSeq, added |-> {}, poisoned |-> FALSE,
             violation |-> FALSE, calls |-> <<>>, specCalls |-> <<>>],
            EmptyDb, 1)

\* what a database holds, ids aside: families, definitions, specs with their
\* geometry, products with their SKU
Content(d) ==
    [families |-> {[brand |-> f.brand_name, family |-> f.family_name] :
                      f \in d.families},
     definitions |-> {[name |-> x.name, material |-> x.material] :
                         x \in d.definitions},
     specs |-> {[size_label |-> g.size_label, geo |-> g.geo] : g \in d.specs},
     products |-> {[key |-> NaturalKey(d, p), sku |-> p.sku] : p \in d.products}]

\* C1: a second run over the same records, on the database a completed run
\* left, ends with the same rows under the same ids in every table.
C1_SecondRunIdempotent ==
    (afterPrev.ok /\ pc \in {"done", "crashed"}) =>
        /\ pc = "done"
        /\ committed = afterPrev.db

\* the second run has ended on a database that holds products and more than
\* the rows of products
C1_Witness ==
    /\ afterPrev.ok /\ pc = "done" /\ run = 2
    /\ committed.products # {}
    /\ committed.families # {}

\* C3: get_or_create_geometry_spec on an existing (definition, label) returns
\* the stored row with every field as it was and leaves one row for the key.
C3_FirstWriteWins ==
    \A i \in 1..Len(specCalls) :
        specCalls[i].existed =>
            /\ specCalls[i].returned = specCalls[i].before
            /\ specCalls[i].stored = {specCalls[i].before}

\* a stored stack of 580 met a payload with 581
C3_Witness ==
    \E i \in 1..Len(specCalls) :
        /\ specCalls[i].existed
        /\ specCalls[i].before.geo["stack_mm"] = 580
        /\ specCalls[i].payload["stack_mm"] = 581
        /\ \E g \in db.specs : g.id = specCalls[i].before.id

\* C4: add_bike_product on a pair that has a product adds no row and leaves
\* the union of the stored and the incoming colours.
C4_ColorsMerged ==
    \A i \in 1..Len(calls) :
        calls[i].kind = "merge" =>
            /\ calls[i].rowsAfter = calls[i].rowsBefore
            /\ Cardinality(calls[i].stored) = 1
            /\ \A p \in calls[i].stored :
                  p.colors = calls[i].colorsBefore \cup calls[i].colors

\* {Red} was stored, {Blue} came in, {Red, Blue} is stored
C4_Witness ==
    \E i \in 1..Len(calls) :
        /\ calls[i].kind = "merge"
        /\ calls[i].colorsBefore = {<<"R">>}
        /\ calls[i].colors = {<<"B">>}
        /\ \E p \in db.products : p.colors = {<<"R">>, <<"B">>}

\* C5: a product to be created whose base SKU is already assigned in the run
\* goes in under base-k for the least k >= 1 with base-k unassigned; in a run
\* that starts on an empty database the insert is accepted and the row is
\* stored under that SKU.
C5_SuffixUntilUnique ==
    \A i \in 1..Len(calls) :
        (calls[i].kind # "merge" /\ calls[i].sku \in calls[i].addedBefore) =>
            /\ \E k \in 1..(Cardinality(calls[i].addedBefore) + 1) :
                  /\ calls[i].final = Suffixed(calls[i].sku, k)
                  /\ calls[i].final \notin calls[i].addedBefore
                  /\ \A j \in 1..(k - 1) :
                        Suffixed(calls[i].sku, j) \in calls[i].addedBefore
            /\ calls[i].kind = "create" =>
                  \A p \in calls[i].stored : p.sku = calls[i].final
            /\ (run = 1 /\ ~killed) => calls[i].kind = "create"

\* two records with different (spec, build kit) pairs and one base SKU are in
\* the database as SKU and SKU-1
C5_Witness ==
    /\ \E i \in 1..Len(calls) :
          /\ calls[i].kind = "create"
          /\ calls[i].sku \in calls[i].addedBefore
          /\ calls[i].final = Suffixed(calls[i].sku, 1)
    /\ \E p, q \in db.products :
          /\ q.sku = Suffixed(p.sku, 1)
          /\ <<p.geometry_spec_id, p.build_kit_id>> # <<q.geometry_spec_id, q.build_kit_id>>

\* C6: at the end of a run every record that was processed without raising is
\* in the database, and every record of the batch has been gone through.
C6_OnlyFailingRecordUndone ==
    pc = "done" =>
        /\ total_files = Len(files)
        /\ \A i \in DOMAIN succeeded : succeeded[i] \subseteq ProductKeys(committed)

\* C7: the re-run of a killed batch ends normally, without a uniqueness
\* violation, on a database that holds what one uninterrupted run holds.
C7_RerunAfterKill ==
    (killed /\ run = 2 /\ pc \in {"done", "crashed"}) =>
        /\ ~violation
        /\ pc = "done"
        /\ Content(committed) = Content(Uninterrupted(files))


\* C28: no two product rows share a SKU, and add_bike_product never tries an
\* insert under a SKU that a stored product already has.
C28_SkuNeverReused ==
    /\ \A p \in db.products, q \in db.products : p.sku = q.sku => p = q
    /\ \A i \in 1..Len(calls) :
           calls[i].kind # "merge" => calls[i].final \notin calls[i].skusBefore

\* C15: every stored geometry row has a head angle within [60, 80], a seat
\* angle within [60, 85] (angles are in tenths of a degree here) and only
\* positive lengths.
C15_GeometryWithinBounds ==
    \A g \in committed.specs :
        /\ g.geo["head_tube_angle"] >= 600 /\ g.geo["head_tube_angle"] <= 800
        /\ g.geo["seat_tube_angle"] >= 600 /\ g.geo["seat_tube_angle"] <= 850
        /\ \A k \in DstKeys \ AngleKeys : g.geo[k] > 0

\* the record the loop has just gone through
LastRecord == files[total_files]

\* the size at idx lacks a required geometry value
Lacks(data, idx) == \E src \in SrcKeys : RawAt(data.specs, src, idx).t = "null"

\* the sizes of a record that lack nothing, in input order
RECURSIVE CompleteSizes(_, _)
CompleteSizes(data, idx) ==
    IF idx > Len(data.sizes) THEN <<>>
    ELSE (IF Lacks(data, idx) THEN <<>> ELSE <<normalize_label(data.sizes[idx])>>)
         \o CompleteSizes(data, idx + 1)

\* labels with blanks before, after and within
SpacedLabels == {<<"M">>, <<"M"," ">>, <<" ","M">>, <<" ","M"," "," ">>,
                 <<"X"," ","L">>, <<"X"," "," ","L">>, <<" ","X"," "," ","L"," ">>}

\* C26: normalize_label is idempotent and makes nothing of blanks before,
\* after or repeated within a label; every stored geometry spec carries a
\* normalized label, and a definition has no two geometry specs whose
\* labels are the same after normalization.
C26_OneSpecPerLabel ==
    /\ \A l \in SpacedLabels :
           normalize_label(normalize_label(l)) = normalize_label(l)
    /\ \A l \in SpacedLabels :
           normalize_label(l) \in {<<"M">>, <<"X"," ","L">>}
    /\ \A g \in db.specs : normalize_label(g.size_label) = g.size_label
    /\ \A g1 \in db.specs, g2 \in db.specs :
           (/\ g1.definition_id = g2.definition_id
            /\ normalize_label(g1.size_label) = normalize_label(g2.size_label))
           => g1 = g2

\* the record labelled " M " has come after the one labelled "M" in one run:
\* its call found the row of the first and the definition has that one row
C26_Witness ==
    /\ total_files >= 2
    /\ LastRecord = RecA2
    /\ \E i \in 1..(total_files - 1) : files[i] = RecA
    /\ ~violation
    /\ Len(specCalls) = 1
    /\ specCalls[1].existed
    /\ specCalls[1].returned.size_label = <<"M">>
    /\ specCalls[1].rowsAfter = 1

-----------------------------------------------------------------------------
(* Product API: create_bike_product / delete_bike_product and the index sync *)

MaxProducts == 3    \* ids the bike_products sequence hands out

\* the rows behind product.frameset: several sizes of one frame share name
\* and material; names and materials are free text
Framesets ==
    { [id |-> 1, name |-> <<"T", " ", "D">>, material |-> <<"A">>,
       size_label |-> <<"S">>, stack |-> 500,
       reach |-> 380],
      [id |-> 2, name |-> <<"T", " ", "D">>, material |-> <<"A">>,
       size_label |-> <<"M">>, stack |-> 520,
       reach |-> 390],
      [id |-> 3, name |-> <<"T", "-", "D">>, material |-> <<"a">>,
       size_label |-> <<"S">>, stack |-> 505,
       reach |-> 382],
      [id |-> 4, name |-> <<"X">>, material |-> NoneStr,
       size_label |-> <<"S">>, stack |-> 510,
       reach |-> 385] }

BuildKitIds == {1, 2}

ApiSkus == {<<"K", "1">>, <<"K", "2">>}

\* product.frameset
FramesetOf(p) == CHOOSE f \in Framesets : f.id = p.geometry_spec_id

\* what an f-string writes for a value: None is written "None"
Str(x) == IF x = NoneStr THEN <<"N", "o", "n", "e">> ELSE x

\* f"{name}-{material}-{build_kit_id}".replace(" ", "-").lower()
GroupId(name, material, build_kit_id) ==
    Lower(ReplaceSpace(Str(name) \o <<"-">> \o Str(material) \o <<"-">>
                       \o Digits(build_kit_id)))

\* ORDER BY stack ASC
RECURSIVE SortByStack(_)
SortByStack(rows) ==
    IF rows = {} THEN <<>>
    ELSE LET first == CHOOSE p \in rows :
                          \A q \in rows : FramesetOf(p).stack <= FramesetOf(q).stack
         IN  <<first>> \o SortByStack(rows \ {first})

\* the products of the same frame name, material and build kit
_find_siblingsMutant(rows, product) ==
    SortByStack({p \in rows :
                    /\ p.id # product.id
                    /\ FramesetOf(p).name = FramesetOf(product).name
                    /\ FramesetOf(p).material = FramesetOf(product).material
                    /\ p.build_kit_id = product.build_kit_id})
_find_siblings(rows, product) ==
    SortByStack({p \in rows :
                    /\ FramesetOf(p).name = FramesetOf(product).name
                    /\ FramesetOf(p).material = FramesetOf(product).material
                    /\ p.build_kit_id = product.build_kit_id})

group_bike_product(product, siblings) ==
    [frameset_name |-> FramesetOf(product).name,
     material |-> FramesetOf(product).material,
     build_kit_id |-> product.build_kit_id,
     skus |-> [i \in 1..Len(siblings) |-> siblings[i].sku],
     product_ids |-> [i \in 1..Len(siblings) |-> siblings[i].id],
     sizes |-> [i \in 1..Len(siblings) |-> FramesetOf(siblings[i]).size_label]]

\* es.index(index, id, document): create or replace
EsIndex(index, id, document) ==
    [k \in DOMAIN index \cup {id} |-> IF k = id THEN document ELSE index[k]]

\* es.delete(index, id, ignore=[404])
EsDelete(index, id) == [k \in DOMAIN index \ {id} |-> index[k]]

\* the INSERT violates a unique constraint of bike_products
Conflicts(rows, product) ==
    \E p \in rows :
        \/ p.sku = product.sku
        \/ /\ p.geometry_spec_id = product.geometry_spec_id
           /\ p.build_kit_id = product.build_kit_id

\* where the search store can fail within one request: on the first index
\* call of the handler, on the second, or not at all; one request of a
\* history at most meets a failing search store
EsFaults == {"none"} \cup (IF es_failed THEN {} ELSE {"first", "second"})

\* sync_product_to_es on the indices fit and group: the fit document, then
\* the siblings and the group document; an index call that fails raises
sync_product_to_es(fit, group, rows, product, fault) ==
    [fit |-> IF fault = "first" THEN fit ELSE fit \cup {Digits(product.id)},
     group |-> IF fault # "none" THEN group
               ELSE EsIndex(group,
                            GroupId(FramesetOf(product).name,
                                    FramesetOf(product).material,
                                    product.build_kit_id),
                            group_bike_product(product,
                                               _find_siblings(rows, product))),
     writes |-> IF fault = "first" THEN <<>>
                ELSE IF fault = "second" THEN <<"index_fit">>
                ELSE <<"index_fit", "index_group">>]

\* the index calls at the end of delete_bike_product
DeleteFromEs(fit, group, rows, product, fault) ==
    LET siblings == _find_siblings(rows, product)
        group_id == GroupId(FramesetOf(product).name,
                            FramesetOf(product).material, product.build_kit_id)
    IN  [fit |-> IF fault = "first" THEN fit ELSE fit \ {Digits(product.id)},
         group |-> IF fault # "none" THEN group
                   ELSE IF siblings = <<>> THEN EsDelete(group, group_id)
                   ELSE EsIndex(group, group_id,
                                group_bike_product(product, siblings)),
         writes |-> IF fault = "first" THEN <<>>
                    ELSE IF fault = "second" THEN <<"delete_fit">>
                    ELSE IF siblings = <<>> THEN <<"delete_fit", "delete_group">>
                    ELSE <<"delete_fit", "index_group">>]

\* the answer to a request: an exception that leaves the handler is a 500
Response(op, status, id, writes, fault) ==
    [op |-> op, status |-> status, id |-> id, writes |-> writes,
     es_error |-> fault # "none"]

ApiInit ==
    /\ PopIdle
    /\ ApiIdle
    /\ EsIdle
    /\ ConcIdle
    /\ DlIdle
    /\ ColIdle
    /\ ExtIdle
    /\ RunIdle

create_bike_product ==
    /\ next_id < MaxProducts
    /\ \E sku \in ApiSkus, f \in Framesets, bk \in BuildKitIds, fault \in EsFaults :
         LET new_product == [id |-> next_id + 1, sku |-> sku,
                             geometry_spec_id |-> f.id, build_kit_id |-> bk]
         IN  /\ next_id' = next_id + 1
             /\ IF Conflicts(products, new_product)
                THEN /\ fault = "none"
                     /\ response' = Response("create", 500, new_product.id,
                                             <<>>, "none")
                     /\ UNCHANGED <<products, fit_index, group_index, es_failed>>
                ELSE \E es \in {sync_product_to_es(fit_index, group_index,
                                                   products \cup {new_product},
                                                   new_product, fault)} :
                     /\ products' = products \cup {new_product}
                     /\ fit_index' = es.fit
                     /\ group_index' = es.group
                     /\ es_failed' = (es_failed \/ fault # "none")
                     /\ response' =
                            Response("create",
                                     IF fault = "none" THEN 200 ELSE 500,
                                     new_product.id, <<"commit">> \o es.writes,
                                     fault)
    /\ UNCHANGED NotApi

delete_bike_product ==
    /\ \E product_id \in 1..MaxProducts, fault \in EsFaults :
         IF ~\E p \in products : p.id = product_id
         THEN /\ fault = "none"
              /\ response' = Response("delete", 404, product_id, <<>>, "none")
              /\ UNCHANGED <<products, fit_index, group_index, es_failed>>
         ELSE \E product \in {p \in products : p.id = product_id} :
              \E es \in {DeleteFromEs(fit_index, group_index,
                                      products \ {product}, product, fault)} :
              /\ products' = products \ {product}
              /\ fit_index' = es.fit
              /\ group_index' = es.group
              /\ es_failed' = (es_failed \/ fault # "none")
              /\ response' =
                     Response("delete", IF fault = "none" THEN 200 ELSE 500,
                              product_id, <<"commit">> \o es.writes, fault)
    /\ UNCHANGED <<next_id, NotApi>>

ApiNext == create_bike_product \/ delete_bike_product

SpecApi == ApiInit /\ [][ApiNext]_vars

-----------------------------------------------------------------------------
(* Product API: properties *)

\* the groups: a frame name, a material and a build kit
GroupKeys ==
    {<<f.name, f.material, bk>> : f \in Framesets, bk \in BuildKitIds}

InGroup(p, k) ==
    /\ FramesetOf(p).name = k[1]
    /\ FramesetOf(p).material = k[2]
    /\ p.build_kit_id = k[3]

\* C2: a group has a document in the group index exactly when a product
\* belongs to it.  Read in the way most favourable to the code: a group with
\* a product has some document under its id, and a document that names a
\* group is there only while the group has a product; requests that met a
\* failing search store are left out.
C2_GroupDocIffProduct ==
    ~es_failed =>
    \A k \in GroupKeys :
        LET id == GroupId(k[1], k[2], k[3])
        IN  /\ (\E p \in products : InGroup(p, k)) => id \in DOMAIN group_index
            /\ (/\ id \in DOMAIN group_index
                /\ group_index[id].frameset_name = k[1]
                /\ group_index[id].material = k[2]
                /\ group_index[id].build_kit_id = k[3])
               => \E p \in products : InGroup(p, k)


\* C14: a request that met a failing search store still answers with
\* success; the relational change it made stays committed.
C14_IndexFailureNotSurfaced ==
    response.es_error =>
        /\ response.status = 200
        /\ response.writes[1] = "commit"

\* the product the last request was about
Subject == CHOOSE p \in products : p.id = response.id

\* the products that share the group of p
GroupOf(p) ==
    {q \in products : InGroup(q, <<FramesetOf(p).name, FramesetOf(p).material,
                                   p.build_kit_id>>)}

\* C20: a successful create commits, then indexes the fit document, then
\* the group document, and nothing else; the group document lists the skus,
\* ids and sizes of exactly the products of the new product's group, the
\* new one among them.
C20_CreateWritesTwoDocs ==
    (response.op = "create" /\ response.status = 200) =>
        /\ response.writes = <<"commit", "index_fit", "index_group">>
        /\ Digits(response.id) \in fit_index
        /\ LET p == Subject
               id == GroupId(FramesetOf(p).name, FramesetOf(p).material,
                             p.build_kit_id)
           IN  /\ id \in DOMAIN group_index
               /\ LET doc == group_index[id]
                      n == Cardinality(GroupOf(p))
                  IN  /\ Len(doc.product_ids) = n
                      /\ Len(doc.skus) = n
                      /\ Len(doc.sizes) = n
                      /\ {doc.product_ids[i] : i \in 1..n} =
                             {q.id : q \in GroupOf(p)}
                      /\ p.id \in {doc.product_ids[i] : i \in 1..n}
                      /\ \A i \in 1..n :
                             \E q \in GroupOf(p) :
                                 /\ doc.product_ids[i] = q.id
                                 /\ doc.skus[i] = q.sku
                                 /\ doc.sizes[i] = FramesetOf(q).size_label

\* a create has just succeeded for a product whose group already had one
C20_Witness ==
    /\ response.op = "create"
    /\ response.status = 200
    /\ Cardinality(GroupOf(Subject)) = 2
    /\ Len(group_index[GroupId(FramesetOf(Subject).name,
                               FramesetOf(Subject).material,
                               Subject.build_kit_id)].skus) = 2

-----------------------------------------------------------------------------
(* Downloader: download_bike_pages, process_url, _download_single_page *)

MaxUrls == 2        \* URLs in the list handed to a run
MaxFaults == 3      \* transient errors the network produces in a run
max_retries == 3

\* product URLs as the segments of their path; a trailing "/" leaves an
\* empty last segment
Urls ==
    { <<"bikes", "madone", "p", "100">>,
      <<"bikes", "madone", "p", "100", "">>,
      <<"bikes", "emonda", "p", "200">> }

Modes == {"base", "trek", "kross_crawler"}

\* str.rstrip("/") on a path
RECURSIVE RStripSlash(_)
RStripSlash(path) ==
    IF path # <<>> /\ path[Len(path)] = ""
    THEN RStripSlash(SubSeq(path, 1, Len(path) - 1))
    ELSE path

\* Trek: path.split("/")[-3] + "__" + path.split("/")[-1];
\* Kross: url.rstrip("/").split("/")[-1]
get_slug_from_url(m, url) ==
    LET path == RStripSlash(url)
    IN  IF m = "trek"
        THEN <<path[Len(path) - 2], "__", path[Len(path)]>>
        ELSE <<path[Len(path)]>>

html_name(slug) == slug \o <<".html">>
json_name(slug) == slug \o <<"_sizing.json">>

\* slug.split("__")[1] if "__" in slug else ""
Pid(slug) ==
    IF \E i \in 1..Len(slug) : slug[i] = "__" THEN slug[3] ELSE ""

\* API_BASE.format(pid=pid)
ApiUrl(pid) == <<"api", "products", pid, "sizing">>

\* the artifacts of a URL: the page and, for Trek, the sizing companion
Phases(m) == IF m = "trek" THEN <<"html", "json">> ELSE <<"html">>

NameOf(m, url, phase) ==
    IF phase = "json" THEN json_name(get_slug_from_url(m, url))
    ELSE html_name(get_slug_from_url(m, url))

TargetOf(m, url, phase) ==
    IF phase = "json" THEN ApiUrl(Pid(get_slug_from_url(m, url))) ELSE url

Range(s) == {s[i] : i \in 1..Len(s)}

Names(m, us) == {NameOf(m, u, ph) : u \in Range(us), ph \in Range(Phases(m))}
Targets(m, us) == {TargetOf(m, u, ph) : u \in Range(us), ph \in Range(Phases(m))}

\* a run meets one permanently missing target and one unreliable one at most
AtMostOne(S) == {T \in SUBSET S : Cardinality(T) <= 1}

\* existing = set() if force else {p.name for p in html_dir.glob("*")}
ExistingMutant(f, files_) == {}
Existing(f, files_) == IF f THEN {} ELSE DOMAIN files_

\* batches = [url_with_idx[i::concurrency] for i in range(concurrency)],
\* or the whole list for one worker; a batch is the list of its indexes
NumWorkers == IF concurrency <= 1 THEN 1 ELSE concurrency

BatchMutant(w) == [k \in 1..Len(urls) |-> k]
Batch(w) ==
    LET n == Len(urls)
        c == NumWorkers
        len == IF w > n THEN 0 ELSE ((n - w) \div c) + 1
    IN  [k \in 1..len |-> w + (k - 1) * c]

Busy(w) == ~aborted /\ workers[w].pos <= Len(Batch(w))

CurIdx(w) == Batch(w)[workers[w].pos]
CurUrl(w) == urls[CurIdx(w)]
CurName(w) == NameOf(mode, CurUrl(w), workers[w].phase)
CurTarget(w) == TargetOf(mode, CurUrl(w), workers[w].phase)

\* the pre-existing cache directories: any of the list's artifacts, left by
\* an earlier run
OldCaches(m, us) ==
    {[n \in S |-> <<"old">>] : S \in SUBSET Names(m, us)}

DlInit ==
    /\ PopIdle
    /\ ApiIdle
    /\ EsIdle
    /\ ConcIdle
    /\ mode \in Modes
    /\ urls \in UNION {[1..n -> Urls] : n \in 1..MaxUrls}
    /\ force \in (IF mode = "kross_crawler" THEN {FALSE} ELSE BOOLEAN)
    /\ concurrency \in (IF mode = "kross_crawler" THEN {1} ELSE 1..2)
    /\ not_found \in AtMostOne(Targets(mode, urls))
    /\ flaky \in AtMostOne(Targets(mode, urls))
    /\ cache \in OldCaches(mode, urls)
    /\ cached_at_start = DOMAIN cache
    /\ existing_names = IF mode = "kross_crawler" THEN {}
                        ELSE Existing(force, cache)
    /\ workers = [w \in 1..NumWorkers |->
                     [pos |-> 1, phase |-> "html", attempt |-> 0]]
    /\ fetches = {}
    /\ faults = 0
    /\ aborted = FALSE
    /\ ColIdle
    /\ ExtIdle
    /\ RunIdle

\* the worker's next artifact: the companion after the page, then the next URL
NextArtifact(w) ==
    IF workers[w].phase = "html" /\ mode = "trek"
    THEN [workers EXCEPT ![w] = [@ EXCEPT !.phase = "json", !.attempt = 0]]
    ELSE [workers EXCEPT ![w] = [pos |-> @.pos + 1, phase |-> "html",
                                 attempt |-> 0]]

NextUrl(w) ==
    [workers EXCEPT ![w] = [pos |-> @.pos + 1, phase |-> "html", attempt |-> 0]]

\* Trek's process_url returns at once when page and companion are both known
BothExisting(w) ==
    /\ mode = "trek"
    /\ workers[w].phase = "html"
    /\ html_name(get_slug_from_url(mode, CurUrl(w))) \in existing_names
    /\ json_name(get_slug_from_url(mode, CurUrl(w))) \in existing_names

\* "if name in existing: return"; KrossDownloader asks the file system instead
IsExisting(w) ==
    IF mode = "kross_crawler" THEN CurName(w) \in DOMAIN cache
    ELSE CurName(w) \in existing_names

Skip(w) ==
    /\ Busy(w)
    /\ workers[w].attempt = 0
    /\ \/ BothExisting(w) /\ workers' = NextUrl(w)
       \/ ~BothExisting(w) /\ IsExisting(w) /\ workers' = NextArtifact(w)
    /\ UNCHANGED <<mode, urls, force, concurrency, not_found, flaky,
                   existing_names,
                   cached_at_start, cache, fetches, faults, aborted>>
    /\ UNCHANGED NotDl

\* what the network can answer to one attempt
Outcomes(target) ==
    (IF target \in not_found THEN {"http404"} ELSE {"ok"})
    \cup (IF target \in flaky /\ faults < MaxFaults THEN {"timeout"} ELSE {})

\* _fetch raises: a timeout always, a bad status only for page.request.get
Raises(phase, outcome) ==
    outcome = "timeout" \/ (phase = "json" /\ outcome = "http404")

\* page.content() after page.goto, or json.dumps(resp.json())
PageContent(phase, target, outcome) ==
    <<phase, IF outcome = "http404" THEN "error_page" ELSE "document", target>>

WriteText(files_, name, content) ==
    [n \in DOMAIN files_ \cup {name} |-> IF n = name THEN content ELSE files_[n]]

\* one attempt of the retried _fetch and what follows it: the write on
\* success, another attempt or the logged failure on an exception
Fetch(w) ==
    /\ Busy(w)
    /\ ~BothExisting(w)
    /\ ~IsExisting(w)
    /\ \E outcome \in Outcomes(CurTarget(w)) :
         LET n == workers[w].attempt + 1
             phase == workers[w].phase
         IN  /\ fetches' = fetches \cup
                    {[by |-> w, idx |-> CurIdx(w), name |-> CurName(w),
                      target |-> CurTarget(w), n |-> n, outcome |-> outcome]}
             /\ faults' = IF outcome = "timeout" THEN faults + 1 ELSE faults
             /\ IF ~Raises(phase, outcome)
                THEN /\ cache' = WriteText(cache, CurName(w),
                                           PageContent(phase, CurTarget(w), outcome))
                     /\ workers' = NextArtifact(w)
                     /\ UNCHANGED aborted
                ELSE /\ UNCHANGED cache
                     /\ IF n < max_retries
                        THEN /\ workers' = [workers EXCEPT ![w].attempt = n]
                             /\ UNCHANGED aborted
                        ELSE /\ workers' = NextArtifact(w)
                             /\ aborted' = (mode = "kross_crawler")
    /\ UNCHANGED <<mode, urls, force, concurrency, not_found, flaky,
                   existing_names,
                   cached_at_start>>
    /\ UNCHANGED NotDl

DlSkip == \E w \in DOMAIN workers : Skip(w)
DlFetch == \E w \in DOMAIN workers : Fetch(w)

DlNext == DlSkip \/ DlFetch

SpecDl == DlInit /\ [][DlNext]_vars

\* the run is over: every worker is through its batch, or the loop was left
DlDone == aborted \/ \A w \in DOMAIN workers : workers[w].pos > Len(Batch(w))

-----------------------------------------------------------------------------
(* Downloader: properties *)

\* the fetches made for the artifact called name of the i-th URL of the list
FetchesOf(i, name) == {f \in fetches : f.idx = i /\ f.name = name}

PageName(i) == NameOf(mode, urls[i], "html")
CompanionName(i) == NameOf(mode, urls[i], "json")

\* C8: a URL answered with HTTP 404 leaves no cache entry for its slug, and
\* the other URLs of the list are still fetched and cached.  An entry that
\* was there before the run, or that a successful fetch of the same name
\* wrote, is not held against the run.
C8_NotFoundLeavesNoEntry ==
    DlDone =>
        /\ \A f \in fetches :
               (/\ f.outcome = "http404"
                /\ f.name \notin cached_at_start
                /\ ~\E g \in fetches : g.name = f.name /\ g.outcome = "ok")
               => f.name \notin DOMAIN cache
        /\ faults = 0 =>
               \A i \in 1..Len(urls) :
                   urls[i] \notin not_found => PageName(i) \in DOMAIN cache

\* C9: an attempt is followed by another attempt for the same artifact only
\* when it ended in a transient error.
C9_RetryOnlyTransient ==
    \A f \in fetches, g \in fetches :
        (g.idx = f.idx /\ g.name = f.name /\ g.n = f.n + 1)
        => f.outcome = "timeout"

\* C10: without force nothing is fetched for an artifact whose file was in
\* the cache when the run started; page and companion are looked up one by
\* one, so a cached page with a missing companion leads to the companion's
\* fetch alone and a cached pair to no fetch at all; with force every
\* artifact of every URL is fetched.
C10_CachedNotFetched ==
    /\ ~force => \A f \in fetches : f.name \notin cached_at_start
    /\ (DlDone /\ ~aborted /\ ~force /\ mode = "trek") =>
           \A i \in 1..Len(urls) :
               /\ (/\ PageName(i) \in cached_at_start
                   /\ CompanionName(i) \notin cached_at_start)
                  => /\ FetchesOf(i, PageName(i)) = {}
                     /\ FetchesOf(i, CompanionName(i)) # {}
               /\ (/\ PageName(i) \in cached_at_start
                   /\ CompanionName(i) \in cached_at_start)
                  => /\ FetchesOf(i, PageName(i)) = {}
                     /\ FetchesOf(i, CompanionName(i)) = {}
    /\ (DlDone /\ force) =>
           \A i \in 1..Len(urls) :
               \A k \in 1..Len(Phases(mode)) :
                   FetchesOf(i, NameOf(mode, urls[i], Phases(mode)[k])) # {}

\* a finished Trek run without force over two URLs: the first had its page
\* cached but not its companion, the second had both; the companion of the
\* first is the only thing that was fetched
C10_Witness ==
    /\ DlDone
    /\ ~force
    /\ mode = "trek"
    /\ Len(urls) = 2
    /\ PageName(1) \in cached_at_start
    /\ CompanionName(1) \notin cached_at_start
    /\ PageName(2) \in cached_at_start
    /\ CompanionName(2) \in cached_at_start
    /\ fetches # {}
    /\ \A f \in fetches : f.idx = 1 /\ f.name = CompanionName(1)
    /\ CompanionName(1) \in DOMAIN cache

\* C11: without force a cache file is never rewritten once it exists, be it
\* from an earlier run or from earlier in this run: no step changes the
\* content of a name the cache already holds.
C11_NeverRewritten ==
    [][~force => \A n \in DOMAIN cache : cache'[n] = cache[n]]_vars

\* C12: the companion of a URL is requested only when the page of that URL
\* was already cached or one of its fetches came back without an exception;
\* after the page's attempts have all failed no companion request is made.
C12_CompanionAfterPage ==
    mode = "trek" =>
        \A f \in fetches :
            f.name = CompanionName(f.idx) =>
                \/ PageName(f.idx) \in cached_at_start
                \/ \E g \in FetchesOf(f.idx, PageName(f.idx)) :
                       g.outcome # "timeout"


\* C24: no artifact gets more than max_retries attempts; an artifact whose
\* last attempt failed has no file written by the run; and when the run is
\* over every worker has gone through all the URLs of its batch.
C24_EveryUrlVisited ==
    /\ \A f \in fetches : f.n <= max_retries
    /\ \A f \in fetches :
           (/\ f.n = max_retries
            /\ f.outcome = "timeout"
            /\ f.name \notin cached_at_start
            /\ ~\E g \in fetches : g.name = f.name /\ g.outcome # "timeout")
           => f.name \notin DOMAIN cache
    /\ DlDone => \A w \in DOMAIN workers : workers[w].pos > Len(Batch(w))

\* C27: with more than one worker the batches are pairwise disjoint and
\* cover the list, there is one worker with its own position and page per
\* batch, a fetch for a URL is made by the worker whose batch holds it, and
\* the set of known names is the one taken before the workers started.
C27_DisjointBatches ==
    concurrency > 1 =>
        /\ Cardinality(DOMAIN workers) = concurrency
        /\ \A w1 \in DOMAIN workers, w2 \in DOMAIN workers :
               w1 # w2 => Range(Batch(w1)) \cap Range(Batch(w2)) = {}
        /\ UNION {Range(Batch(w)) : w \in DOMAIN workers} = 1..Len(urls)
        /\ \A f \in fetches : f.idx \in Range(Batch(f.by))
        /\ existing_names = (IF force THEN {} ELSE cached_at_start)

\* a finished run of two workers over two URLs, each of which fetched the
\* URL of its own batch
C27_Witness ==
    /\ concurrency = 2
    /\ Len(urls) = 2
    /\ DlDone
    /\ \E f \in fetches : f.by = 1 /\ f.idx = 1
    /\ \E f \in fetches : f.by = 2 /\ f.idx = 2
-----------------------------------------------------------------------------
(* URL collector: KrossBikeCrawler.run and TrekBikeCrawler.collect_urls *)

MaxPages == 3       \* listing pages behind a start URL
MaxCrawls == 2      \* runs of the collector over the same artifact

\* the product links a listing page can show
Hrefs == {<<"a">>, <<"b">>}

Catalogs == UNION {[1..n -> SUBSET Hrefs] : n \in 1..MaxPages}

\* Python's order on strings, for lower-case letters
CharRank(c) == CHOOSE i \in 1..26 : LowerChars[i] = c

RECURSIVE StrLess(_, _)
StrLess(a, b) ==
    IF a = <<>> THEN b # <<>>
    ELSE IF b = <<>> THEN FALSE
    ELSE IF Head(a) = Head(b) THEN StrLess(Tail(a), Tail(b))
    ELSE CharRank(Head(a)) < CharRank(Head(b))

\* sorted(urls) for a set of strings
RECURSIVE SortedUrls(_)
SortedUrls(S) ==
    IF S = {} THEN <<>>
    ELSE LET least == CHOOSE x \in S : \A y \in S \ {x} : StrLess(x, y)
         IN  <<least>> \o SortedUrls(S \ {least})

\* the artifacts an earlier run can have left at output_path
OldOutputs == {NoneStr, <<<<"a">>>>}

ColInit ==
    /\ PopIdle
    /\ ApiIdle
    /\ EsIdle
    /\ ConcIdle
    /\ DlIdle
    /\ ExtIdle
    /\ RunIdle
    /\ crawler \in {"kross", "trek"}
    /\ catalog \in Catalogs
    /\ overwrite \in (IF crawler = "kross" THEN BOOLEAN ELSE {FALSE})
    /\ output \in OldOutputs
    /\ bike_urls = {}
    /\ current_page = 1
    /\ goto_attempt = 0
    /\ page_flaky \in AtMostOne(1..Len(catalog))
    /\ page_faults = 0
    /\ result = [state |-> "running", urls |-> <<>>, failed_at |-> 0]
    /\ crawl = 1
    /\ artifact_at_start = output
    /\ visited = {}

\* Kross: "if self.output_path.exists() and not overwrite";
\* BaseBikeCrawler.run (Trek): "if not self.urls_path.exists() ... else"
ArtifactUsableMutant == FALSE
ArtifactUsable == output # NoneStr /\ ~overwrite

\* list(dict.fromkeys(xs)): the first occurrence of each element, in order
RECURSIVE Dedup(_, _)
Dedup(xs, seen) ==
    IF xs = <<>> THEN <<>>
    ELSE IF Head(xs) \in seen THEN Dedup(Tail(xs), seen)
    ELSE <<Head(xs)>> \o Dedup(Tail(xs), seen \cup {Head(xs)})

\* json.loads of the artifact (Kross); load_urls (Trek)
load_urls(c, artifact) == IF c = "trek" THEN Dedup(artifact, {}) ELSE artifact

\* the run returns the artifact without opening the catalog
LoadUrls ==
    /\ result.state = "running"
    /\ ArtifactUsable
    /\ result' = [state |-> "returned", urls |-> load_urls(crawler, output),
                  failed_at |-> 0]
    /\ UNCHANGED <<crawler, catalog, overwrite, output, bike_urls, current_page,
                   goto_attempt, page_flaky, page_faults, crawl,
                   artifact_at_start, visited>>
    /\ UNCHANGED NotCol

\* what a page load can end in
PageOutcomes ==
    {"ok"} \cup (IF current_page \in page_flaky /\ page_faults < MaxFaults
                 THEN {"timeout"} ELSE {})

\* the collector ends: the sorted list is written to the artifact (by
\* KrossBikeCrawler.run itself, by save_urls for Trek) and returned
Finish(found) ==
    /\ result' = [state |-> "returned", urls |-> SortedUrls(found),
                  failed_at |-> 0]
    /\ output' = SortedUrls(found)

\* the last attempt to open a listing page has failed: goto_page re-raises
\* through run; collect_urls returns [] for the first page and breaks out of
\* the pagination for a later one, and run saves what it returned
GiveUp ==
    /\ result' = IF crawler = "kross"
                 THEN [state |-> "raised", urls |-> <<>>,
                       failed_at |-> current_page]
                 ELSE [state |-> "returned",
                       urls |-> IF current_page = 1 THEN <<>>
                                ELSE SortedUrls(bike_urls),
                       failed_at |-> current_page]
    /\ output' = IF crawler = "kross" THEN output
                 ELSE IF current_page = 1 THEN <<>>
                 ELSE SortedUrls(bike_urls)

\* one attempt to open the current listing page and what follows it
GotoPage ==
    /\ result.state = "running"
    /\ ~ArtifactUsable
    /\ visited' = visited \cup {current_page}
    /\ \E outcome \in PageOutcomes :
         IF outcome = "ok"
         THEN /\ bike_urls' = bike_urls \cup catalog[current_page]
              /\ goto_attempt' = 0
              /\ UNCHANGED page_faults
              /\ IF current_page < Len(catalog)
                 THEN /\ current_page' = current_page + 1
                      /\ UNCHANGED <<result, output>>
                 ELSE /\ Finish(bike_urls \cup catalog[current_page])
                      /\ UNCHANGED current_page
         ELSE /\ page_faults' = page_faults + 1
              /\ UNCHANGED <<bike_urls, current_page>>
              /\ IF goto_attempt + 1 < max_retries
                 THEN /\ goto_attempt' = goto_attempt + 1
                      /\ UNCHANGED <<result, output>>
                 ELSE /\ GiveUp
                      /\ UNCHANGED goto_attempt
    /\ UNCHANGED <<crawler, catalog, overwrite, page_flaky, crawl,
                   artifact_at_start>>
    /\ UNCHANGED NotCol

\* the collector is run again on the same site, with the artifact as the
\* run before left it
ColRerun ==
    /\ result.state \in {"returned", "raised"}
    /\ crawl < MaxCrawls
    /\ crawl' = crawl + 1
    /\ overwrite' \in (IF crawler = "kross" THEN BOOLEAN ELSE {FALSE})
    /\ artifact_at_start' = output
    /\ bike_urls' = {}
    /\ current_page' = 1
    /\ goto_attempt' = 0
    /\ visited' = {}
    /\ result' = [state |-> "running", urls |-> <<>>, failed_at |-> 0]
    /\ UNCHANGED <<crawler, catalog, output, page_flaky, page_faults>>
    /\ UNCHANGED NotCol

ColNext == LoadUrls \/ GotoPage \/ ColRerun

SpecCol == ColInit /\ [][ColNext]_vars

-----------------------------------------------------------------------------
(* URL collector: properties *)

\* the product links on the listing pages before page n
FoundBefore(n) == UNION {catalog[i] : i \in 1..(n - 1)}

\* C13: when a listing page could not be opened within the retry budget,
\* the collector still returns, and what it returns are the product URLs of
\* the listing pages visited before.
C13_PartialResult ==
    result.failed_at > 0 =>
        /\ result.state = "returned"
        /\ result.urls = SortedUrls(FoundBefore(result.failed_at))


\* the list is ascending without duplicates
Ascending(xs) == \A i \in 1..Len(xs), j \in 1..Len(xs) : i < j => StrLess(xs[i], xs[j])

\* C25: what a run returns is ascending and free of duplicates; a run that
\* went through the catalog leaves what it returned in the URL artifact; a
\* run that found the artifact and was not forced opens no listing page and
\* returns the artifact's content, which it leaves as it was.
C25_ArtifactReused ==
    /\ result.state = "returned" => Ascending(result.urls)
    /\ (result.state = "returned" /\ visited # {}) => output = result.urls
    /\ (artifact_at_start # NoneStr /\ ~overwrite) =>
           /\ visited = {}
           /\ output = artifact_at_start
           /\ result.state # "raised"
           /\ result.state = "returned" => result.urls = artifact_at_start

\* a second run, not forced, has returned the two URLs the first run found
\* and wrote, without opening a listing page
C25_Witness ==
    /\ crawl = 2
    /\ ~overwrite
    /\ artifact_at_start = << <<"a">>, <<"b">> >>
    /\ result.state = "returned"
    /\ result.urls = << <<"a">>, <<"b">> >>
    /\ visited = {}

-----------------------------------------------------------------------------
(* Extractor: extract_bike_data, process_directory, normalize_wheel_size  *)
(*                                                                         *)
(* A page is the geometry table as the HTML parser hands it over: whether  *)
(* the table and its header row are there, the size labels and, per        *)
(* geometry key, the cleaned cell values in the order of the sizes.        *)

MaxSizes == 2       \* sizes of a geometry table

SizeLabels == << <<"S">>, <<"M">>, <<"L">> >>

\* GEO_MAP's keys that are lengths, and the angles
LengthKeys == {"stack", "reach", "TT", "ST", "HT", "CS", "bb_drop", "WB"}
GeoAngleKeys == {"HA", "SA"}

\* _normalize_specs: a length below this (in tenths) is taken for centimetres
CmBelow == 1500

\* what clean_value made of a stack cell: 56.0, 150, 560.4, or text
CellValues == {NumV(560), NumV(1500), NumV(5604), BadV}

\* the geometry tables: none, one without a header row, or one with n sizes
\* and either no geometry rows or a stack and a head-angle row
Tables(vendor) ==
    {[table |-> t, sizes |-> <<>>, specs |-> <<>>] : t \in {"none", "no_header"}}
    \cup
    {[table |-> "ok", sizes |-> SubSeq(SizeLabels, 1, n), specs |-> <<>>] :
        n \in 0..MaxSizes}
    \cup
    {[table |-> "ok", sizes |-> SubSeq(SizeLabels, 1, Len(vals)),
      specs |-> [k \in {"stack", "HA"} |->
                    IF k = "stack" THEN vals
                    ELSE [j \in 1..Len(vals) |-> NumV(710)]]] :
        vals \in UNION {[1..n -> CellValues] :
                           n \in (IF vendor = "trek" THEN 1 ELSE 0)..MaxSizes}}

\* trek_extractor.py, _normalize_specs: one value of a length key
NormalizeLength(v) ==
    IF v.t = "num"
    THEN (IF v.v < CmBelow THEN NumV(v.v * 10) ELSE NumV(Round(v.v) * 10))
    ELSE v

_normalize_specs(sp) ==
    [k \in DOMAIN sp |->
        IF k \in LengthKeys
        THEN [j \in 1..Len(sp[k]) |-> NormalizeLength(sp[k][j])]
        ELSE sp[k]]

Record(sz, sp) == [kind |-> "record", sizes |-> sz, specs |-> sp]

\* KrossBikeExtractor.extract_bike_data: None without the table or its header
\* row; otherwise the header's sizes and the rows as they are
KrossExtract(pg) ==
    IF pg.table # "ok" THEN NoData ELSE Record(pg.sizes, pg.specs)

\* TrekBikeExtractor.extract_bike_data: None when _extract_geometry has no
\* sizes; otherwise the sizes and the normalised rows
TrekExtract(pg) ==
    IF pg.table # "ok" \/ pg.sizes = <<>> THEN NoData
    ELSE Record(pg.sizes, _normalize_specs(pg.specs))

extract_bike_data(vendor, pg) ==
    IF vendor = "kross" THEN KrossExtract(pg) ELSE TrekExtract(pg)

\* str.replace("''", ""): pairs of apostrophes, from the left
RECURSIVE RemovePairs(_)
RemovePairs(str) ==
    IF str = <<>> THEN <<>>
    ELSE IF Len(str) >= 2 /\ str[1] = "'" /\ str[2] = "'"
         THEN RemovePairs(SubSeq(str, 3, Len(str)))
         ELSE <<str[1]>> \o RemovePairs(Tail(str))

\* str.replace(c, "") for a single character
RemoveChar(str, c) == SelectSeq(str, LAMBDA x : x # c)

WheelMapping ==
    << << <<"2","9">>, <<"7","0","0">> >>,
       << <<"2","8">>, <<"7","0","0">> >>,
       << <<"7","0","0">>, <<"7","0","0">> >>,
       << <<"2","7",".","5">>, <<"5","8","4">> >>,
       << <<"2","7",",","5">>, <<"5","8","4">> >>,
       << <<"2","6">>, <<"5","5","9">> >>,
       << <<"2","4">>, <<"5","0","7">> >>,
       << <<"2","0">>, <<"4","0","6">> >>,
       << <<"1","6">>, <<"3","0","5">> >>,
       << <<"1","2">>, <<"2","0","3">> >> >>

\* mapping.get(val_str, val_str)
MappingGet(val_str) ==
    IF \E j \in 1..Len(WheelMapping) : WheelMapping[j][1] = val_str
    THEN WheelMapping[CHOOSE j \in 1..Len(WheelMapping) :
                          WheelMapping[j][1] = val_str][2]
    ELSE val_str

normalize_wheel_sizeMutant(value) ==
    IF value = NoneStr THEN NoneStr
    ELSE MappingGet(RemoveChar(RemoveChar(Lower(Strip(value)), "\""), "c"))
normalize_wheel_size(value) ==
    IF value = NoneStr THEN NoneStr
    ELSE MappingGet(RemoveChar(RemovePairs(
             RemoveChar(Lower(Strip(value)), "\"")), "c"))

\* the tokens and the inch marks put around them
WheelTokens == {<<"2","9">>, <<"2","8">>, <<"7","0","0">>, <<"7","0","0","C">>,
                <<"2","7",".","5">>, <<"2","7",",","5">>, <<"2","6">>,
                <<"2","7">>}
InchMarks == {<<>>, <<"\"">>, <<"'","'">>}

WheelValue == wheel.pre \o wheel.token \o wheel.suf

ExtInit ==
    /\ PopIdle
    /\ ApiIdle
    /\ EsIdle
    /\ ConcIdle
    /\ DlIdle
    /\ ColIdle
    /\ RunIdle
    /\ extractor \in {"kross", "trek"}
    /\ html \in Tables(extractor)
    /\ extracted = Pending
    /\ json_file = NoData
    /\ wheel \in {[pre |-> a, token |-> t, suf |-> b, done |-> FALSE,
                   code |-> <<>>] :
                     a \in InchMarks, t \in WheelTokens, b \in InchMarks}

\* process_directory over the page: the record is written as the canonical
\* JSON, a page without one is skipped
ProcessFile ==
    /\ extracted = Pending
    /\ \E res \in {extract_bike_data(extractor, html)} :
          /\ extracted' = res
          /\ json_file' = res
    /\ UNCHANGED <<extractor, html, wheel>>
    /\ UNCHANGED NotExt

\* normalize_wheel_size applied to the token
NormalizeWheel ==
    /\ ~wheel.done
    /\ wheel' = [wheel EXCEPT !.done = TRUE,
                              !.code = normalize_wheel_size(WheelValue)]
    /\ UNCHANGED <<extractor, html, extracted, json_file>>
    /\ UNCHANGED NotExt

ExtNext == ProcessFile \/ NormalizeWheel

SpecExt == ExtInit /\ [][ExtNext]_vars

\* C16: extract_bike_data returns no record, and no canonical JSON is
\* written, when no sizes were extracted from the page: a record's list of
\* sizes is never empty.
C16_NoRecordWithoutSizes ==
    /\ extracted.kind = "record" => extracted.sizes # <<>>
    /\ json_file.kind = "record" => json_file.sizes # <<>>

\* C18: in a record of either vendor each numeric length below the threshold
\* is stored times ten, each numeric length at or above it is stored as it
\* is (to the whole millimetre), and no angle is changed.
C18_LengthsInMillimetres ==
    extracted.kind = "record" =>
        \A k \in DOMAIN extracted.specs : \A j \in 1..Len(extracted.specs[k]) :
            LET raw == html.specs[k][j]
                out == extracted.specs[k][j]
            IN  /\ (k \in LengthKeys /\ raw.t = "num" /\ raw.v < CmBelow)
                       => out = NumV(raw.v * 10)
                /\ (k \in LengthKeys /\ raw.t = "num" /\ raw.v >= CmBelow)
                       => out = NumV(Round(raw.v) * 10)
                /\ k \in GeoAngleKeys => out = raw

Same700 == {<<"2","9">>, <<"2","8">>, <<"7","0","0">>}
Same584 == {<<"2","7",".","5">>, <<"2","7",",","5">>}

\* C19: "29", "28" and "700" get one and the same code, "27.5" and "27,5"
\* get one and the same code, whatever inch marks stand around the token.
C19_WheelSizesUnified ==
    wheel.done =>
        /\ wheel.token \in Same700 => wheel.code = <<"7","0","0">>
        /\ wheel.token \in Same584 => wheel.code = <<"5","8","4">>

\* 27,5 between two pairs of apostrophes has been normalised to 584
C19_Witness ==
    /\ wheel.done
    /\ WheelValue = <<"'","'","2","7",",","5","'","'">>
    /\ wheel.code = <<"5","8","4">>

-----------------------------------------------------------------------------
(* crawl_all: the loop over a vendor's start URLs                          *)
(*                                                                         *)
(* A collector run is taken as a whole here: it either returns the         *)
(* artifact or goes through the catalog of its start URL.                  *)

MaxStarts == 3      \* configured start URLs of a vendor

StartUrlSets == UNION {[1..n -> SUBSET Hrefs] : n \in 1..MaxStarts}

CrawlAllInit ==
    /\ PopIdle
    /\ ApiIdle
    /\ EsIdle
    /\ ConcIdle
    /\ DlIdle
    /\ ColIdle
    /\ ExtIdle
    /\ site \in {"kross", "trek"}
    /\ start_urls \in StartUrlSets
    /\ force_crawler \in BOOLEAN
    /\ urls_path \in OldOutputs
    /\ path_at_start = urls_path
    /\ all_urls = {}
    /\ start_idx = 1
    /\ opened = {}
    /\ stage = "crawl"

\* "if not urls_path.exists() or FORCE_CRAWLER"
MustCrawl == path_at_start = NoneStr \/ force_crawler

\* KrossBikeCrawler(start_url, output_path).run(): overwrite is left at its
\* default, so the artifact is returned once it is there
KrossRun(i) ==
    IF urls_path # NoneStr
    THEN [urls |-> urls_path, file |-> urls_path, opened |-> {}]
    ELSE [urls |-> SortedUrls(start_urls[i]),
          file |-> SortedUrls(start_urls[i]),
          opened |-> {i}]

\* one turn of "for start_url in START_URLS": the collector is built and run
\* and its URLs are added to the set.  TrekBikeCrawler's __init__ takes no
\* arguments, so building it with start_url and output_path raises.
CrawlStartUrl ==
    /\ stage = "crawl"
    /\ MustCrawl
    /\ start_idx <= Len(start_urls)
    /\ IF site = "trek"
       THEN /\ stage' = "raised"
            /\ UNCHANGED <<urls_path, all_urls, start_idx, opened>>
       ELSE \E r \in {KrossRun(start_idx)} :
               /\ all_urls' = all_urls \cup Range(r.urls)
               /\ urls_path' = r.file
               /\ opened' = opened \cup r.opened
               /\ start_idx' = start_idx + 1
               /\ stage' = IF start_idx = Len(start_urls) THEN "download"
                           ELSE "crawl"
    /\ UNCHANGED <<site, start_urls, force_crawler, path_at_start>>
    /\ UNCHANGED NotRun

\* the else branch: the set is read from the artifact
LoadAllUrls ==
    /\ stage = "crawl"
    /\ ~MustCrawl
    /\ all_urls' = Range(urls_path)
    /\ stage' = "download"
    /\ UNCHANGED <<site, start_urls, force_crawler, urls_path, path_at_start,
                   start_idx, opened>>
    /\ UNCHANGED NotRun

CrawlAllNext == CrawlStartUrl \/ LoadAllUrls

SpecCrawlAll == CrawlAllInit /\ [][CrawlAllNext]_vars

\* the product URLs under all the start URLs
UnderAllStarts == UNION {start_urls[i] : i \in 1..Len(start_urls)}

\* C30: crawl_all, begun without a URL artifact, does not raise, and when
\* its loop is over every start URL's catalog was visited and the set
\* handed to the download stage, like the artifact's content, is the union
\* of the product URLs under all the start URLs.
C30_UnionOverStartUrls ==
    path_at_start = NoneStr =>
        /\ stage # "raised"
        /\ stage = "download" =>
               /\ opened = 1..Len(start_urls)
               /\ all_urls = UnderAllStarts
               /\ urls_path # NoneStr
               /\ Range(urls_path) = UnderAllStarts

-----------------------------------------------------------------------------
(* Index rebuild: populate_es.py main, create_index, create_group_index and *)
(* populate_index.  The rows of Framesets stand for the geometry_specs rows *)
(* joined with their definition; group_bike_product is taken to find what   *)
(* it reads through product.frameset.                                       *)

\* the bike_families and frame_definitions rows above the geometry specs
FamilyRows ==
    { [id |-> 1, family_name |-> <<"T">>],
      [id |-> 2, family_name |-> <<"X">>] }

DefinitionRows ==
    { [id |-> 1, family_id |-> 1, name |-> <<"T", " ", "D">>, material |-> <<"A">>],
      [id |-> 2, family_id |-> 1, name |-> <<"T", "-", "D">>, material |-> <<"a">>],
      [id |-> 3, family_id |-> 2, name |-> <<"X">>, material |-> NoneStr] }

\* spec.definition
DefinitionOf(spec) ==
    CHOOSE d \in DefinitionRows : d.name = spec.name /\ d.material = spec.material

\* definition.family
FamilyOf(definition) == CHOOSE f \in FamilyRows : f.id = definition.family_id

\* a bike_products row for a geometry spec and a build kit
ProductRow(f, bk) ==
    [id |-> (f.id - 1) * Cardinality(BuildKitIds) + bk,
     sku |-> <<"K">> \o Digits((f.id - 1) * Cardinality(BuildKitIds) + bk),
     geometry_spec_id |-> f.id, build_kit_id |-> bk]

\* the bike_products tables the rebuild can find
ProductTables ==
    {t \in SUBSET {ProductRow(f, bk) : f \in Framesets, bk \in BuildKitIds} :
        Cardinality(t) <= MaxProducts}

\* what an earlier rebuild or the API left in the indices
StaleDoc == [frameset_name |-> <<"O">>, material |-> NoneStr, build_kit_id |-> 1,
             skus |-> <<>>, product_ids |-> <<>>, sizes |-> <<>>]

EsInit ==
    /\ products \in ProductTables
    /\ geometry_specs \in {g \in SUBSET {f.id : f \in Framesets} :
                              {p.geometry_spec_id : p \in products} \subseteq g}
    /\ \E stale \in BOOLEAN :
          /\ fit_index = IF stale THEN {<<"9">>} ELSE {}
          /\ group_index = IF stale THEN [k \in {<<"o">>} |-> StaleDoc] ELSE NoFn
    /\ fit_source = NoFn
    /\ es_stage = "start"
    /\ next_id = 0
    /\ response = [op |-> "none", status |-> 0, id |-> 0, writes |-> <<>>,
                   es_error |-> FALSE]
    /\ es_failed = FALSE
    /\ PopIdle
    /\ DlIdle
    /\ ColIdle
    /\ ExtIdle
    /\ RunIdle
    /\ ConcIdle

\* the _source of a fit document
serialize_bike(product) ==
    [id |-> product.id,
     sku |-> product.sku,
     size_label |-> FramesetOf(product).size_label,
     stack_mm |-> FramesetOf(product).stack,
     reach_mm |-> FramesetOf(product).reach,
     definition_name |-> DefinitionOf(FramesetOf(product)).name,
     material |-> DefinitionOf(FramesetOf(product)).material,
     family_name |-> FamilyOf(DefinitionOf(FramesetOf(product))).family_name]

\* key = (family.id, definition.id, p.build_kit_id)
GroupKey(p) ==
    <<FamilyOf(DefinitionOf(FramesetOf(p))).id, DefinitionOf(FramesetOf(p)).id,
      p.build_kit_id>>

\* f"{family.family_name}-{definition.name}-{rep.build_kit_id}"
\*     .replace(" ", "-").lower()
group_id(rep) ==
    Lower(ReplaceSpace(Str(FamilyOf(DefinitionOf(FramesetOf(rep))).family_name)
                       \o <<"-">> \o Str(DefinitionOf(FramesetOf(rep)).name)
                       \o <<"-">> \o Digits(rep.build_kit_id)))

serialize_group(group_products) ==
    [id |-> group_id(group_products[1]),
     source |-> group_bike_product(group_products[1], group_products)]

\* the rows in the order the SELECT returns them
RECURSIVE SortById(_)
SortById(rows) ==
    IF rows = {} THEN <<>>
    ELSE LET first == CHOOSE p \in rows : \A q \in rows : p.id <= q.id
         IN  <<first>> \o SortById(rows \ {first})

\* the group actions of helpers.bulk: one index operation per key of groups,
\* in the order the keys were inserted, each replacing what is under its id
RECURSIVE BulkGroups(_, _)
BulkGroups(index, todo) ==
    IF todo = {} THEN index
    ELSE LET first == CHOOSE p \in todo : \A q \in todo : p.id <= q.id
             doc == serialize_group(SortById({q \in todo :
                                                 GroupKey(q) = GroupKey(first)}))
         IN  BulkGroups(EsIndex(index, doc.id, doc.source),
                        {q \in todo : GroupKey(q) # GroupKey(first)})

\* main with --recreate (always set): both indices are dropped and created
CreateIndexes ==
    /\ es_stage = "start"
    /\ es_stage' = "created"
    /\ fit_index' = {}
    /\ fit_source' = NoFn
    /\ group_index' = NoFn
    /\ UNCHANGED <<products, next_id, response, es_failed, geometry_specs>>
    /\ UNCHANGED NotEs

\* populate_index: one fit document per bike_products row, then one group
\* document per key
populate_index ==
    /\ es_stage = "created"
    /\ es_stage' = "populated"
    /\ fit_index' = fit_index \cup {Digits(p.id) : p \in products}
    /\ fit_source' = [k \in DOMAIN fit_source \cup {Digits(p.id) : p \in products} |->
                         IF \E p \in products : Digits(p.id) = k
                         THEN serialize_bike(CHOOSE p \in products : Digits(p.id) = k)
                         ELSE fit_source[k]]
    /\ group_index' = BulkGroups(group_index, products)
    /\ UNCHANGED <<products, next_id, response, es_failed, geometry_specs>>
    /\ UNCHANGED NotEs

EsNext == CreateIndexes \/ populate_index

SpecEs == EsInit /\ [][EsNext]_vars

\* C22: after the rebuild the fit-search index holds, for every
\* geometry_specs row, a document with that spec's size label, stack and
\* reach and the names of its definition and family
C22_EverySpecIndexed ==
    es_stage = "populated" =>
    \A g \in geometry_specs :
        \E k \in DOMAIN fit_source :
            \E f \in {f \in Framesets : f.id = g} :
                /\ fit_source[k].size_label = f.size_label
                /\ fit_source[k].stack_mm = f.stack
                /\ fit_source[k].reach_mm = f.reach
                /\ fit_source[k].definition_name = DefinitionOf(f).name
                /\ fit_source[k].family_name = FamilyOf(DefinitionOf(f)).family_name

\* C23: the group document id is one-to-one on the groups: products of the
\* same group get the same id, products of different groups get different
\* ids, and after the rebuild there are as many group documents as groups,
\* each listing the products of its own group
C23_GroupIdOneToOne ==
    es_stage = "populated" =>
        /\ \A p, q \in products :
               (GroupKey(p) = GroupKey(q)) <=> (group_id(p) = group_id(q))
        /\ Cardinality(DOMAIN group_index) =
               Cardinality({GroupKey(p) : p \in products})
        /\ \A p \in products :
               /\ group_id(p) \in DOMAIN group_index
               /\ Range(group_index[group_id(p)].product_ids) =
                      {q.id : q \in {r \in products : GroupKey(r) = GroupKey(p)}}

-----------------------------------------------------------------------------
(* Product API under concurrency: create_bike_product and                  *)
(* delete_bike_product are coroutines; a request runs without interruption  *)
(* up to an await (es.index, es.delete) and another request can run while   *)
(* it waits.  An index or delete request is on the wire from the call until *)
(* the search store applies it, and nothing orders the requests of two      *)
(* coroutines on the wire.                                                  *)

\* the two requests in progress
ReqIds == {"a", "b"}

NoProduct == [id |-> 0, sku |-> <<>>, geometry_spec_id |-> 0, build_kit_id |-> 0]
NoWrite == [kind |-> "none", id |-> <<>>, doc |-> <<>>]
NotStarted == [op |-> "none", pc |-> "idle", product |-> NoProduct,
               write |-> NoWrite, status |-> 0]

\* the frames the requests are about: no two of their groups share an id
ConcFramesets == {f \in Framesets : f.id # 3}

\* products stored and indexed before the two requests arrive
Stored(n) == [id |-> n, sku |-> <<"P">> \o Digits(n), geometry_spec_id |-> n,
              build_kit_id |-> 1]

ConcInit ==
    /\ products \in {{}, {Stored(1)}, {Stored(1), Stored(2)}}
    /\ next_id = Cardinality(products)
    /\ fit_index = {Digits(p.id) : p \in products}
    /\ group_index =
          [k \in {GroupId(FramesetOf(p).name, FramesetOf(p).material,
                          p.build_kit_id) : p \in products} |->
              group_bike_product(Stored(1), _find_siblings(products, Stored(1)))]
    /\ response = [op |-> "none", status |-> 0, id |-> 0, writes |-> <<>>,
                   es_error |-> FALSE]
    /\ es_failed = FALSE
    /\ reqs = [r \in ReqIds |-> NotStarted]
    /\ PopIdle
    /\ DlIdle
    /\ ColIdle
    /\ ExtIdle
    /\ RunIdle
    /\ EsIdle

\* create_bike_product up to its first await: the INSERT and the commit, the
\* fit document sent
CreateStart(r) ==
    /\ reqs[r].pc = "idle"
    /\ next_id < MaxProducts
    /\ \E f \in ConcFramesets, bk \in BuildKitIds :
         \E new_product \in {[id |-> next_id + 1,
                              sku |-> <<"K">> \o Digits(next_id + 1),
                              geometry_spec_id |-> f.id, build_kit_id |-> bk]} :
             /\ next_id' = next_id + 1
             /\ IF Conflicts(products, new_product)
                THEN /\ reqs' = [reqs EXCEPT ![r] =
                                    [NotStarted EXCEPT !.op = "create",
                                                       !.pc = "done",
                                                       !.status = 500]]
                     /\ UNCHANGED products
                ELSE /\ products' = products \cup {new_product}
                     /\ reqs' = [reqs EXCEPT ![r] =
                                    [NotStarted EXCEPT !.op = "create",
                                                       !.pc = "await_fit",
                                                       !.product = new_product]]
    /\ UNCHANGED <<fit_index, group_index, response, es_failed>>
    /\ UNCHANGED NotConc

\* delete_bike_product up to its first await: the DELETE and the commit, the
\* delete of the fit document sent
DeleteStart(r) ==
    /\ reqs[r].pc = "idle"
    /\ \E product_id \in 1..MaxProducts :
         IF ~\E p \in products : p.id = product_id
         THEN /\ reqs' = [reqs EXCEPT ![r] =
                             [NotStarted EXCEPT !.op = "delete", !.pc = "done",
                                                !.status = 404]]
              /\ UNCHANGED products
         ELSE \E product \in {p \in products : p.id = product_id} :
              /\ products' = products \ {product}
              /\ reqs' = [reqs EXCEPT ![r] =
                             [NotStarted EXCEPT !.op = "delete",
                                                !.pc = "await_fit",
                                                !.product = product]]
    /\ UNCHANGED <<next_id, fit_index, group_index, response, es_failed>>
    /\ UNCHANGED NotConc

\* the group request a coroutine sends after it read the siblings
GroupWrite(op, rows, product) ==
    IF op = "delete" /\ _find_siblings(rows, product) = <<>>
    THEN [kind |-> "delete",
          id |-> GroupId(FramesetOf(product).name, FramesetOf(product).material,
                         product.build_kit_id),
          doc |-> <<>>]
    ELSE [kind |-> "index",
          id |-> GroupId(FramesetOf(product).name, FramesetOf(product).material,
                         product.build_kit_id),
          doc |-> group_bike_product(product, _find_siblings(rows, product))]

\* the first await returns: the fit index has taken the request; the
\* coroutine reads the siblings, builds the group document and sends it
AfterFit(r) ==
    /\ reqs[r].pc = "await_fit"
    /\ fit_index' = IF reqs[r].op = "create"
                    THEN fit_index \cup {Digits(reqs[r].product.id)}
                    ELSE fit_index \ {Digits(reqs[r].product.id)}
    /\ reqs' = [reqs EXCEPT ![r].pc = "await_group",
                            ![r].write = GroupWrite(reqs[r].op, products,
                                                    reqs[r].product)]
    /\ UNCHANGED <<products, next_id, group_index, response, es_failed>>
    /\ UNCHANGED NotConc

\* the search store applies the group request and the second await returns
AfterGroup(r) ==
    /\ reqs[r].pc = "await_group"
    /\ group_index' = IF reqs[r].write.kind = "delete"
                      THEN EsDelete(group_index, reqs[r].write.id)
                      ELSE EsIndex(group_index, reqs[r].write.id, reqs[r].write.doc)
    /\ reqs' = [reqs EXCEPT ![r].pc = "done", ![r].status = 200]
    /\ UNCHANGED <<products, next_id, fit_index, response, es_failed>>
    /\ UNCHANGED NotConc

ConcNext ==
    \E r \in ReqIds : CreateStart(r) \/ DeleteStart(r) \/ AfterFit(r) \/ AfterGroup(r)

SpecConc == ConcInit /\ [][ConcNext]_vars

\* the groups the requests can touch
ConcGroupKeys ==
    {<<f.name, f.material, bk>> : f \in ConcFramesets, bk \in BuildKitIds}

\* C29: once both concurrent requests have finished, every group has a
\* document exactly when the database holds a product of it, and the
\* document lists exactly the products the database holds for the group
C29_NoStaleSnapshot ==
    (\A r \in ReqIds : reqs[r].pc = "done") =>
    \A k \in ConcGroupKeys :
        /\ (GroupId(k[1], k[2], k[3]) \in DOMAIN group_index)
              <=> (\E p \in products : InGroup(p, k))
        /\ (GroupId(k[1], k[2], k[3]) \in DOMAIN group_index) =>
              Range(group_index[GroupId(k[1], k[2], k[3])].product_ids) =
                  {p.id : p \in {q \in products : InGroup(q, k)}}

====
